---------------------------- MODULE Spec2Model ----------------------------
(***************************************************************************)
(* A model of opencontext/api.py (class OpenContextAPI): the cache key     *)
(* builder, the file cache, the fetcher, the facet attribute extractors,   *)
(* the recursive pagination walker, the record normalizer and the tabular  *)
(* assembler (the dataframe's columns, their datatypes and their order).   *)
(*                                                                         *)
(* Python str values are TLA+ strings.  JSON values (what json.load and    *)
(* requests' r.json() return) are tagged records, so that values of        *)
(* different Python types can be compared:                                 *)
(*   None -> [t |-> "null"]          bool -> [t |-> "bool", b |-> ..]      *)
(*   int  -> [t |-> "int", n |-> ..] str  -> [t |-> "str", s |-> ..]       *)
(*   float -> [t |-> "float", s |-> .., n |-> .., d |-> ..], the float     *)
(*            s * n / d: s is the sign (1 or -1, so that -0.0 is a value), *)
(*            n a natural number and d a power of ten, 1 or with n not a   *)
(*            multiple of ten (a decimal of up to nine digits is the       *)
(*            double nearest to it, and repr() gives the decimal back);    *)
(*            d = 0 for inf (n = 1) and nan (n = 0)                        *)
(*   list -> [t |-> "list", items |-> <<..>>]                              *)
(*   dict -> [t |-> "dict", keys |-> <<..>>, vals |-> <<..>>]              *)
(* (a dict keeps its insertion order, as Python's does).                   *)
(***************************************************************************)
EXTENDS Integers, Sequences, FiniteSets, TLC

VARIABLES
    cache_file_prefix,         \* self.cache_file_prefix
    max_result_context_depth,  \* self.max_result_context_depth
    dir_exists,                \* whether the oc-api-cache directory exists
    files,                     \* the directory's entries: name -> entry
    op,                        \* the public call in progress (or idle)
    stack,                     \* frames of get_paged_json_records, innermost last
    gcu,                       \* the activation of get_cache_url
    result,                    \* how the last public call ended
    hist,                      \* what the call in progress did so far
    ncalls,                    \* the number of public calls made
    probe                      \* inputs and outputs of the pure functions run alone

vars == <<cache_file_prefix, max_result_context_depth, dir_exists, files,
          op, stack, gcu, result, hist, ncalls, probe>>

----------------------------------------------------------------------------
(* Python str helpers *)

Ch(s, i) == IF 1 <= i /\ i <= Len(s) THEN SubSeq(s, i, i) ELSE ""

\* s.startswith(p)
StartsWith(s, p) == Len(p) <= Len(s) /\ SubSeq(s, 1, Len(p)) = p

\* sub in s
Contains(s, sub) ==
    \E i \in 1..(Len(s) - Len(sub) + 1) : SubSeq(s, i, i + Len(sub) - 1) = sub

\* the position of the first occurrence of the one-character string c, or 0
FirstIndex(s, c) ==
    IF \E i \in 1..Len(s) : Ch(s, i) = c
    THEN CHOOSE i \in 1..Len(s) : Ch(s, i) = c /\ \A j \in 1..(i - 1) : Ch(s, j) # c
    ELSE 0

\* s.split(c) for a one-character separator c: always at least one part
RECURSIVE Split(_, _)
Split(s, c) ==
    LET i == FirstIndex(s, c) IN
    IF i = 0 THEN <<s>>
    ELSE <<SubSeq(s, 1, i - 1)>> \o Split(SubSeq(s, i + 1, Len(s)), c)

\* delim.join(parts)
RECURSIVE Join(_, _)
Join(parts, delim) ==
    IF parts = <<>> THEN ""
    ELSE IF Len(parts) = 1 THEN parts[1]
    ELSE parts[1] \o delim \o Join(Tail(parts), delim)

\* the characters of code points 32 to 95 and 97 to 126, in order
CodePoints ==
    << " !\"#$%&'()*+,-./0123456789:;<=>?@ABCDEFGHIJKLMNOPQRSTUVWXYZ[\\]^_",
       "abcdefghijklmnopqrstuvwxyz{|}~" >>

\* ord(c) and chr(n), for the characters a string of the model can hold
Ord(c) ==
    CASE c = "\t" -> 9 [] c = "\n" -> 10 [] c = "\f" -> 12 [] c = "\r" -> 13
      [] Contains(CodePoints[1], c) -> 31 + FirstIndex(CodePoints[1], c)
      [] Contains(CodePoints[2], c) -> 96 + FirstIndex(CodePoints[2], c)
Chr(n) ==
    CASE n = 9 -> "\t" [] n = 10 -> "\n" [] n = 12 -> "\f" [] n = 13 -> "\r"
      [] n \in 32..95 -> Ch(CodePoints[1], n - 31)
      [] n \in 97..126 -> Ch(CodePoints[2], n - 96)

----------------------------------------------------------------------------
(* JSON values *)

None == [t |-> "null"]
JBool(b) == [t |-> "bool", b |-> b]
JInt(n) == [t |-> "int", n |-> n]
\* the float n.0 for an integer n
JFloat(n) == [t |-> "float", s |-> IF n < 0 THEN -1 ELSE 1,
              n |-> IF n < 0 THEN 0 - n ELSE n, d |-> 1]
\* float('nan'), which is also numpy's nan
NaN == [t |-> "float", s |-> 1, n |-> 0, d |-> 0]
JStr(s) == [t |-> "str", s |-> s]
JList(items) == [t |-> "list", items |-> items]
JDict(keys, vals) == [t |-> "dict", keys |-> keys, vals |-> vals]

\* Python truthiness: `if obj:`
Truthy(v) ==
    CASE v.t = "null" -> FALSE
      [] v.t = "bool" -> v.b
      [] v.t = "int" -> v.n # 0
      [] v.t = "float" -> v.n # 0 \/ v.d = 0
      [] v.t = "str" -> v.s # ""
      [] v.t = "list" -> v.items # <<>>
      [] v.t = "dict" -> v.keys # <<>>

IndexOf(seq, x) ==
    IF \E i \in 1..Len(seq) : seq[i] = x
    THEN CHOOSE i \in 1..Len(seq) : seq[i] = x
    ELSE 0

\* the set of the elements of seq
Range(seq) == {seq[i] : i \in 1..Len(seq)}

\* the concatenation of the sequences of seqs
RECURSIVE Flatten(_)
Flatten(seqs) == IF seqs = <<>> THEN <<>> ELSE Head(seqs) \o Flatten(Tail(seqs))

\* seq without the repetitions of an element after its first occurrence
RECURSIVE FirstSeen(_)
FirstSeen(seq) ==
    IF seq = <<>> THEN <<>>
    ELSE LET front == FirstSeen(SubSeq(seq, 1, Len(seq) - 1))
             last == seq[Len(seq)]
         IN IF last \in Range(front) THEN front ELSE Append(front, last)

\* key in d
HasKey(d, k) == d.t = "dict" /\ IndexOf(d.keys, k) # 0

\* d.get(k, default)
DictGet(d, k, default) ==
    IF HasKey(d, k) THEN d.vals[IndexOf(d.keys, k)] ELSE default

\* d[k] = v
DictSet(d, k, v) ==
    IF HasKey(d, k)
    THEN JDict(d.keys, [d.vals EXCEPT ![IndexOf(d.keys, k)] = v])
    ELSE JDict(Append(d.keys, k), Append(d.vals, v))

\* repr(x) of a float x: the shortest decimal that gives x back, in
\* positional notation from 0.0001 on and with an exponent below
FloatRepr(v) ==
    LET D == ToString(v.n)
        L == Len(D)
        k == Len(ToString(v.d)) - 1
        point == L - k
        sign == IF v.s < 0 THEN "-" ELSE ""
        x == 1 - point
    IN
    IF v.d = 0 THEN (IF v.n = 0 THEN "nan" ELSE sign \o "inf")
    ELSE sign \o
         (IF point > 0
          THEN SubSeq(D, 1, point) \o "."
               \o (IF k = 0 THEN "0" ELSE SubSeq(D, point + 1, L))
          ELSE IF point > -4
          THEN "0." \o SubSeq("000", 1, 0 - point) \o D
          ELSE Ch(D, 1) \o (IF L > 1 THEN "." \o SubSeq(D, 2, L) ELSE "")
               \o "e-" \o (IF x < 10 THEN "0" ELSE "") \o ToString(x))

\* repr(s) of a str: in single quotes, in double quotes when s holds a single
\* quote and no double quote
RECURSIVE StrRepr(_, _)
StrRepr(s, quote) ==
    LET half == Len(s) \div 2
        Char(c) ==
            CASE c = quote -> "\\" \o c
              [] c = "\\" -> "\\\\"
              [] c = "\n" -> "\\n"
              [] c = "\t" -> "\\t"
              [] c = "\r" -> "\\r"
              [] c = "\f" -> "\\x0c"
              [] OTHER -> c
    IN
    IF \A i \in 1..Len(s) : Ch(s, i) \notin {quote, "\\", "\n", "\t", "\r", "\f"} THEN s
    ELSE IF Len(s) = 1 THEN Char(s)
    ELSE StrRepr(SubSeq(s, 1, half), quote) \o StrRepr(SubSeq(s, half + 1, Len(s)), quote)

\* repr(v)
RECURSIVE PyRepr(_)
PyRepr(v) ==
    CASE v.t = "null" -> "None"
      [] v.t = "bool" -> (IF v.b THEN "True" ELSE "False")
      [] v.t = "int" -> ToString(v.n)
      [] v.t = "float" -> FloatRepr(v)
      [] v.t = "str" ->
            LET quote == IF Contains(v.s, "'") /\ ~Contains(v.s, "\"")
                         THEN "\"" ELSE "'"
            IN quote \o StrRepr(v.s, quote) \o quote
      [] v.t = "list" ->
            "[" \o Join([i \in 1..Len(v.items) |-> PyRepr(v.items[i])], ", ") \o "]"
      [] v.t = "dict" ->
            "{" \o Join([i \in 1..Len(v.keys) |->
                            PyRepr(JStr(v.keys[i])) \o ": " \o PyRepr(v.vals[i])],
                        ", ") \o "}"

\* str(v)
PyStr(v) == IF v.t = "str" THEN v.s ELSE PyRepr(v)

\* type(v).__name__
TypeName(v) ==
    CASE v.t = "null" -> "NoneType"
      [] v.t = "bool" -> "bool"
      [] v.t = "int" -> "int"
      [] v.t = "float" -> "float"
      [] v.t = "str" -> "str"
      [] v.t = "list" -> "list"
      [] v.t = "dict" -> "dict"

----------------------------------------------------------------------------
(* json.dumps: the JSON text of a value.  pretty is indent=4 (the cache    *)
(* writer), otherwise the default one-line form with ", " and ": ".        *)
(* ensure_ascii=False leaves every character as it is but the quote, the   *)
(* backslash and the control characters, which are escaped.                *)

RECURSIVE Pad(_)
Pad(level) == IF level <= 0 THEN "" ELSE "    " \o Pad(level - 1)

RECURSIVE Escape(_)
Escape(s) ==
    LET half == Len(s) \div 2
        Char(c) ==
            CASE c = "\"" -> "\\\""
              [] c = "\\" -> "\\\\"
              [] c = "\n" -> "\\n"
              [] c = "\t" -> "\\t"
              [] c = "\r" -> "\\r"
              [] c = "\f" -> "\\f"
              [] OTHER -> c
    IN
    IF \A i \in 1..Len(s) : Ch(s, i) \notin {"\"", "\\", "\n", "\t", "\r", "\f"} THEN s
    ELSE IF Len(s) = 1 THEN Char(s)
    ELSE Escape(SubSeq(s, 1, half)) \o Escape(SubSeq(s, half + 1, Len(s)))

RECURSIVE json_dumps(_, _, _)
json_dumps(v, pretty, level) ==
    LET open(b) == IF pretty THEN b \o "\n" \o Pad(level + 1) ELSE b
        sep == IF pretty THEN ",\n" \o Pad(level + 1) ELSE ", "
        close(b) == IF pretty THEN "\n" \o Pad(level) \o b ELSE b
    IN
    CASE v.t = "null" -> "null"
      [] v.t = "bool" -> (IF v.b THEN "true" ELSE "false")
      [] v.t = "int" -> ToString(v.n)
      [] v.t = "float" ->
            IF v.d # 0 THEN FloatRepr(v)
            ELSE IF v.n = 0 THEN "NaN"
            ELSE IF v.s < 0 THEN "-Infinity" ELSE "Infinity"
      [] v.t = "str" -> "\"" \o Escape(v.s) \o "\""
      [] v.t = "list" ->
            IF v.items = <<>> THEN "[]"
            ELSE open("[")
                 \o Join([i \in 1..Len(v.items) |->
                             json_dumps(v.items[i], pretty, level + 1)], sep)
                 \o close("]")
      [] v.t = "dict" ->
            IF v.keys = <<>> THEN "{}"
            ELSE open("{")
                 \o Join([i \in 1..Len(v.keys) |->
                             "\"" \o Escape(v.keys[i]) \o "\": "
                             \o json_dumps(v.vals[i], pretty, level + 1)], sep)
                 \o close("}")

----------------------------------------------------------------------------
(* json.load: a recursive-descent parser of JSON as Python's json module   *)
(* reads it (null, true, false, NaN, Infinity, numbers, strings, arrays,   *)
(* objects).  A parse step returns [ok, v, i]: whether it succeeded, the   *)
(* value, and the position after it.                                       *)

IsDigit(c) == c # "" /\ Contains("0123456789", c)

ParseFail == [ok |-> FALSE, v |-> None, i |-> 0]
ParseOk(v, i) == [ok |-> TRUE, v |-> v, i |-> i]

LitAt(s, i, lit) == i + Len(lit) - 1 <= Len(s) /\ SubSeq(s, i, i + Len(lit) - 1) = lit

\* the position of the first character at or after i that is not whitespace
SkipWs(s, i) ==
    CHOOSE j \in i..(IF i > Len(s) THEN i ELSE Len(s) + 1) :
        /\ Ch(s, j) \notin {" ", "\n", "\t", "\r"}
        /\ \A k \in i..(j - 1) : Ch(s, k) \in {" ", "\n", "\t", "\r"}

\* i is the position after the opening quote; acc is the text read so far
\* (eight characters at once where none of them ends or escapes).  A raw
\* control character ends the parse (strict mode); \uXXXX is four hex
\* digits; \b and the escapes of characters outside CodePoints name
\* characters a string of the model cannot hold.
RECURSIVE ScanString(_, _, _)
ScanString(s, i, acc) ==
    LET c == Ch(s, i)
        n == Ch(s, i + 1)
        h(k) == IF Ch(s, i + 1 + k) = "" THEN 0
                ELSE IF Contains("0123456789abcdef", Ch(s, i + 1 + k))
                THEN FirstIndex("0123456789abcdef", Ch(s, i + 1 + k))
                ELSE FirstIndex("0123456789ABCDEF", Ch(s, i + 1 + k))
        hex == 4096 * (h(1) - 1) + 256 * (h(2) - 1) + 16 * (h(3) - 1) + (h(4) - 1)
        Plain(m) == Ch(s, m) \notin {"", "\"", "\\", "\n", "\t", "\r", "\f"}
    IN
    CASE \A m \in i..(i + 7) : Plain(m) ->
            ScanString(s, i + 8, acc \o SubSeq(s, i, i + 7))
      [] c = "" -> ParseFail
      [] c = "\"" -> ParseOk(JStr(acc), i + 1)
      [] c \in {"\n", "\t", "\r", "\f"} -> ParseFail
      [] c = "\\" ->
            (CASE n \in {"\"", "\\", "/"} -> ScanString(s, i + 2, acc \o n)
               [] n = "n" -> ScanString(s, i + 2, acc \o "\n")
               [] n = "t" -> ScanString(s, i + 2, acc \o "\t")
               [] n = "r" -> ScanString(s, i + 2, acc \o "\r")
               [] n = "f" -> ScanString(s, i + 2, acc \o "\f")
               [] n = "b" -> ScanString(s, i + 2, acc \o Chr(8))
               [] n = "u" /\ \A k \in 1..4 : h(k) # 0 ->
                     ScanString(s, i + 6, acc \o Chr(hex))
               [] OTHER -> ParseFail)
      [] OTHER -> ScanString(s, i + 1, acc \o c)

\* the run of digits at i: [ds, i], the digits and the position after them
RECURSIVE ScanDigits(_, _, _)
ScanDigits(s, i, acc) ==
    IF IsDigit(Ch(s, i)) THEN ScanDigits(s, i + 1, acc \o Ch(s, i))
    ELSE [ds |-> acc, i |-> i]

\* int(ds) for a run of digits
RECURSIVE IntOf(_)
IntOf(ds) ==
    IF ds = "" THEN 0
    ELSE 10 * IntOf(SubSeq(ds, 1, Len(ds) - 1)) + (FirstIndex("0123456789", Ch(ds, Len(ds))) - 1)

RECURSIVE Pow10(_)
Pow10(k) == IF k <= 0 THEN 1 ELSE 10 * Pow10(k - 1)

\* the float of the decimal int_ds.frac_ds * 10^exp, negated if neg
Decimal(neg, int_ds, frac_ds, exp) ==
    LET Trailing(all) ==
            CHOOSE k \in 0..Len(all) :
                /\ \A m \in (Len(all) - k + 1)..Len(all) : Ch(all, m) = "0"
                /\ k < Len(all) => Ch(all, Len(all) - k) # "0"
        Scaled(n, e) ==
            [t |-> "float", s |-> IF neg THEN -1 ELSE 1,
             n |-> IF n # 0 /\ e > 0 THEN n * Pow10(e) ELSE n,
             d |-> IF n # 0 /\ e < 0 THEN Pow10(0 - e) ELSE 1]
        Cut(all, trailing) ==
            Scaled(IntOf(SubSeq(all, 1, Len(all) - trailing)),
                   exp - Len(frac_ds) + trailing)
        Significant(all) == Cut(all, Trailing(all))
    IN Significant(int_ds \o frac_ds)

\* a number as json's NUMBER_RE matches it at i:
\* (-?(?:0|[1-9]\d*))(\.\d+)?([eE][-+]?\d+)?, an int when it has neither a
\* fraction nor an exponent, a float otherwise
ScanNumber(s, i) ==
    LET neg == Ch(s, i) = "-"
        Scanned(int, frac, exp, minus) ==
            IF int.ds = "" THEN ParseFail
            ELSE IF frac.ds = "" /\ exp.ds = ""
            THEN ParseOk(JInt(IF neg THEN 0 - IntOf(int.ds) ELSE IntOf(int.ds)), int.i)
            ELSE ParseOk(Decimal(neg, int.ds, frac.ds,
                                 IF minus THEN 0 - IntOf(exp.ds) ELSE IntOf(exp.ds)),
                         exp.i)
        Exponent(int, frac, k) ==
            Scanned(int, frac,
                    IF Ch(s, frac.i) \in {"e", "E"} /\ IsDigit(Ch(s, k))
                    THEN ScanDigits(s, k, "")
                    ELSE [ds |-> "", i |-> frac.i],
                    Ch(s, frac.i + 1) = "-")
        Fraction(int, frac) ==
            Exponent(int, frac,
                     IF Ch(s, frac.i + 1) \in {"+", "-"} THEN frac.i + 2 ELSE frac.i + 1)
        Integer(int) ==
            Fraction(int,
                     IF Ch(s, int.i) = "." /\ IsDigit(Ch(s, int.i + 1))
                     THEN ScanDigits(s, int.i + 1, "")
                     ELSE [ds |-> "", i |-> int.i])
        From(j) ==
            Integer(IF Ch(s, j) = "0" THEN [ds |-> "0", i |-> j + 1]
                    ELSE ScanDigits(s, j, ""))
    IN From(IF neg THEN i + 1 ELSE i)

RECURSIVE ParseValue(_, _), ParseItems(_, _, _), ParseMembers(_, _, _)
ParseValue(s, i0) ==
    LET At(i) ==
            CASE LitAt(s, i, "null") -> ParseOk(None, i + 4)
              [] LitAt(s, i, "true") -> ParseOk(JBool(TRUE), i + 4)
              [] LitAt(s, i, "false") -> ParseOk(JBool(FALSE), i + 5)
              [] LitAt(s, i, "NaN") -> ParseOk(NaN, i + 3)
              [] LitAt(s, i, "Infinity") -> ParseOk([JFloat(1) EXCEPT !.d = 0], i + 8)
              [] LitAt(s, i, "-Infinity") -> ParseOk([JFloat(-1) EXCEPT !.d = 0], i + 9)
              [] Ch(s, i) = "\"" -> ScanString(s, i + 1, "")
              [] Ch(s, i) = "-" \/ IsDigit(Ch(s, i)) -> ScanNumber(s, i)
              [] Ch(s, i) = "[" ->
                    IF Ch(s, SkipWs(s, i + 1)) = "]"
                    THEN ParseOk(JList(<<>>), SkipWs(s, i + 1) + 1)
                    ELSE ParseItems(s, i + 1, <<>>)
              [] Ch(s, i) = "{" ->
                    IF Ch(s, SkipWs(s, i + 1)) = "}"
                    THEN ParseOk(JDict(<<>>, <<>>), SkipWs(s, i + 1) + 1)
                    ELSE ParseMembers(s, i + 1, JDict(<<>>, <<>>))
              [] OTHER -> ParseFail
    IN At(SkipWs(s, i0))

\* the elements of an array, a value expected at i
ParseItems(s, i, acc) ==
    LET After(r) ==
            IF ~r.ok THEN ParseFail
            ELSE CASE Ch(s, SkipWs(s, r.i)) = "," ->
                        ParseItems(s, SkipWs(s, r.i) + 1, Append(acc, r.v))
                   [] Ch(s, SkipWs(s, r.i)) = "]" ->
                        ParseOk(JList(Append(acc, r.v)), SkipWs(s, r.i) + 1)
                   [] OTHER -> ParseFail
    IN After(ParseValue(s, i))

\* the members of an object, a "key": value pair expected at i; a repeated
\* key keeps its first position and takes the last value, as dict() does
ParseMembers(s, i, acc) ==
    LET Colon(k, c) ==
            IF k.ok /\ Ch(s, c) = ":"
            THEN [key |-> k.v.s, r |-> ParseValue(s, c + 1)]
            ELSE [key |-> "", r |-> ParseFail]
        Key(k) == Colon(k, SkipWs(s, k.i))
        Member(k0) == Key(IF Ch(s, k0) = "\"" THEN ScanString(s, k0 + 1, "") ELSE ParseFail)
        After(m) ==
            IF ~m.r.ok THEN ParseFail
            ELSE CASE Ch(s, SkipWs(s, m.r.i)) = "," ->
                        ParseMembers(s, SkipWs(s, m.r.i) + 1, DictSet(acc, m.key, m.r.v))
                   [] Ch(s, SkipWs(s, m.r.i)) = "}" ->
                        ParseOk(DictSet(acc, m.key, m.r.v), SkipWs(s, m.r.i) + 1)
                   [] OTHER -> ParseFail
    IN After(Member(SkipWs(s, i)))

\* json.loads(text): [ok, v]; not ok is the exception json raises
json_loads(text) ==
    LET Parsed(r) ==
            IF r.ok /\ SkipWs(text, r.i) = Len(text) + 1
            THEN [ok |-> TRUE, v |-> r.v]
            ELSE [ok |-> FALSE, v |-> None]
    IN Parsed(ParseValue(text, 1))

----------------------------------------------------------------------------
(* Class attributes and the configuration __init__ sets *)

API_CACHE_DIR == "oc-api-cache"
RECS_PER_REQUEST == 200
FLATTEN_ATTRIBUTES == FALSE
RESPONSE_TYPE_LIST == <<"metadata", "uri-meta">>
TEXT_FACET_OPTION_KEYS == <<"oc-api:has-id-options", "oc-api:has-text-options">>
NON_TEXT_OPTION_KEYS ==
    <<"oc-api:has-numeric-options", "oc-api:has-boolean-options",
      "oc-api:has-integer-options", "oc-api:has-float-options",
      "oc-api:has-date-options">>
FACET_OPTIONS_KEYS == TEXT_FACET_OPTION_KEYS \o NON_TEXT_OPTION_KEYS
NON_ATTRIBUTE_SLUG_PREFIXES == <<"gbif-", "eol-p-">>
VON_DEN_DRIESCH_PROP == "oc-zoo-anatomical-meas---oc-zoo-von-den-driesch-bone-meas"
MULTI_VALUE_ATTRIBUTE_HANDLING == <<"first", "last", "json", "concat", "column_val">>
STANDARD_MULTI_VALUE_HANDLING == JDict(<<"Has fusion character">>, <<JStr("column_val")>>)
multi_value_handle_non_number == "concat"
multi_value_handle_number == "first"
multi_value_delim == "; "

\* CONTEXT_LEVEL_COLUMN_TEMPLATE.format(i)
CONTEXT_LEVEL_COLUMN_TEMPLATE(i) == "Context (" \o ToString(i) \o ")"

\* date.today().strftime('%Y-%m-%d'), the prefix __init__ sets
TodayPrefix == "2026-10-29"

----------------------------------------------------------------------------
(* Exceptions.  Python 3 does not raise a str: `raise('text')` raises a    *)
(* TypeError whose message is the interpreter's, and the text is lost.     *)

Exception(type, msg) == [type |-> type, msg |-> msg]
NoException == Exception("", "")

\* the AttributeError of v.attr for a value v that has no such attribute
AttributeError(v, attr) ==
    Exception("AttributeError",
              "'" \o TypeName(v) \o "' object has no attribute '" \o attr \o "'")

\* isinstance(v, (bool, int, float))
IsNumber(v) == v.t \in {"bool", "int", "float"}

\* a == b: numbers by value (nan equal to nothing), lists item by item,
\* dicts key by key.  The items of a list and the values of a dict are
\* compared as ItemEq does.
RECURSIVE PyEq(_, _), ItemEq(_, _)
PyEq(a, b) ==
    LET num(v) == CASE v.t = "bool" -> JFloat(IF v.b THEN 1 ELSE 0)
                    [] v.t = "int" -> JFloat(v.n)
                    [] OTHER -> v
        same(x, y) == /\ x.n = y.n
                      /\ x.d = y.d
                      /\ x.n # 0 \/ x.d # 0
                      /\ x.s = y.s \/ x.n = 0
    IN
    CASE IsNumber(a) /\ IsNumber(b) -> same(num(a), num(b))
      [] a.t = "list" /\ b.t = "list" ->
            /\ Len(a.items) = Len(b.items)
            /\ \A i \in 1..Len(a.items) : ItemEq(a.items[i], b.items[i])
      [] a.t = "dict" /\ b.t = "dict" ->
            /\ Len(a.keys) = Len(b.keys)
            /\ \A i \in 1..Len(a.keys) :
                  HasKey(b, a.keys[i]) /\ ItemEq(a.vals[i], DictGet(b, a.keys[i], None))
      [] OTHER -> a = b

\* a is b or a == b, as the comparison of containers and `in` take their
\* items: the same object is equal to itself.  Of the values json gives,
\* only for nan does it matter: json.loads gives one object for every NaN.
ItemEq(a, b) == (a = NaN /\ b = NaN) \/ PyEq(a, b)

\* the exception a > b raises, NoException if it raises none: numbers
\* compare with numbers, strs with strs, lists with lists by their first
\* items that differ
RECURSIVE GreaterExc(_, _)
GreaterExc(a, b) ==
    CASE IsNumber(a) /\ IsNumber(b) -> NoException
      [] a.t = "str" /\ b.t = "str" -> NoException
      [] a.t = "list" /\ b.t = "list" ->
            LET differ == {i \in 1..Len(a.items) :
                              i <= Len(b.items) /\ ~ItemEq(a.items[i], b.items[i])}
                first == CHOOSE i \in differ : \A k \in differ : i <= k
            IN IF differ = {} THEN NoException
               ELSE GreaterExc(a.items[first], b.items[first])
      [] OTHER ->
            Exception("TypeError",
                      "'>' not supported between instances of '" \o TypeName(a)
                      \o "' and '" \o TypeName(b) \o "'")

\* a + b: [exc, v].  v is the sum of ints, strs and lists; of a sum with a
\* float it is a float only (what follows uses the type of a number, never
\* its value)
PyAdd(a, b) ==
    LET int(v) == IF v.t = "bool" THEN (IF v.b THEN 1 ELSE 0) ELSE v.n
        ok(v) == [exc |-> NoException, v |-> v]
        raise(msg) == [exc |-> Exception("TypeError", msg), v |-> None]
    IN
    CASE IsNumber(a) /\ IsNumber(b) ->
            IF a.t = "float" THEN ok(a)
            ELSE IF b.t = "float" THEN ok(b)
            ELSE ok(JInt(int(a) + int(b)))
      [] a.t = "str" /\ b.t = "str" -> ok(JStr(a.s \o b.s))
      [] a.t = "list" /\ b.t = "list" -> ok(JList(a.items \o b.items))
      [] a.t \in {"str", "list"} ->
            raise("can only concatenate " \o a.t \o " (not \"" \o TypeName(b)
                  \o "\") to " \o a.t)
      [] OTHER ->
            raise("unsupported operand type(s) for +: '" \o TypeName(a)
                  \o "' and '" \o TypeName(b) \o "'")

\* for x in v: [exc, items], the items the loop visits (the keys of a dict,
\* the characters of a str)
PyIter(v) ==
    CASE v.t = "list" -> [exc |-> NoException, items |-> v.items]
      [] v.t = "dict" ->
            [exc |-> NoException, items |-> [i \in 1..Len(v.keys) |-> JStr(v.keys[i])]]
      [] v.t = "str" ->
            [exc |-> NoException, items |-> [i \in 1..Len(v.s) |-> JStr(Ch(v.s, i))]]
      [] OTHER ->
            [exc |-> Exception("TypeError",
                               "'" \o TypeName(v) \o "' object is not iterable"),
             items |-> <<>>]

\* v < 1: [exc, v]
LessThan1(v) ==
    CASE v.t = "bool" -> [exc |-> NoException, v |-> ~v.b]
      [] v.t = "int" -> [exc |-> NoException, v |-> v.n < 1]
      [] v.t = "float" ->
            [exc |-> NoException,
             v |-> IF v.d = 0 THEN v.n = 1 /\ v.s < 0 ELSE v.s < 0 \/ v.n < v.d]
      [] OTHER ->
            [exc |-> Exception("TypeError",
                               "'<' not supported between instances of '"
                               \o TypeName(v) \o "' and 'int'"),
             v |-> FALSE]

raise_str(text) == Exception("TypeError", "exceptions must derive from BaseException")

----------------------------------------------------------------------------
(* The cache key builder *)

\* {k: v for k, v in params.items() if (k + '=') not in url}
RECURSIVE ParamsNotInUrl(_, _, _)
ParamsNotInUrl(url, params, i) ==
    IF i > Len(params.keys) THEN JDict(<<>>, <<>>)
    ELSE LET rest == ParamsNotInUrl(url, params, i + 1) IN
         IF Contains(url, params.keys[i] \o "=") THEN rest
         ELSE JDict(<<params.keys[i]>> \o rest.keys, <<params.vals[i]>> \o rest.vals)

_modify_get_params_by_url_check(url, params) ==
    IF ~Truthy(params) THEN JDict(<<>>, <<>>)
    ELSE LET extra_params == ParamsNotInUrl(url, params, 1) IN
         IF /\ Truthy(DictGet(params, "prop", None))
            /\ ~Truthy(DictGet(extra_params, "prop", None))
            /\ ~Contains(url, "prop=" \o DictGet(params, "prop", None).s)
         THEN DictSet(extra_params, "prop", DictGet(params, "prop", None))
         ELSE extra_params

\* hashlib.sha1(text).hexdigest().  SHA-1 is taken to be collision-free: the
\* digest of a text is rendered as a name that only that text has.
sha1_hexdigest(text) == "sha1(" \o text \o ")"

_make_url_cache_file_name(prefix, url, extra_params) ==
    LET url0 == IF Contains(url, "#") THEN Split(url, "#")[1] ELSE url
        extra_suffix ==
            IF Truthy(extra_params)
            THEN PyStr(_modify_get_params_by_url_check(url0, extra_params))
            ELSE ""
    IN prefix \o "-" \o sha1_hexdigest(url0 \o extra_suffix) \o ".json"

----------------------------------------------------------------------------
(* The file cache.  A directory entry is a regular file with its text, or  *)
(* something else (a sub-directory); utf8 is whether the file's bytes      *)
(* decode as UTF-8.                                                        *)

FileEntry(text) == [kind |-> "file", text |-> text, utf8 |-> TRUE]

PutFile(fs, name, entry) ==
    [n \in (DOMAIN fs) \cup {name} |-> IF n = name THEN entry ELSE fs[n]]

RemoveFiles(fs, names) == [n \in (DOMAIN fs) \ names |-> fs[n]]

\* json.load(codecs.open(path, 'r', 'utf-8-sig')) under try/except: None
\* on a missing file, a directory, undecodable bytes or malformed JSON
_get_parse_cached_json(fs, cache_file_name) ==
    IF /\ cache_file_name \in DOMAIN fs
       /\ fs[cache_file_name].kind = "file"
       /\ fs[cache_file_name].utf8
       /\ json_loads(fs[cache_file_name].text).ok
    THEN json_loads(fs[cache_file_name].text).v
    ELSE None

\* _cache_json had it opened the file to append ('a') and not to write ('w')
_cache_json_append(fs, cache_file_name, obj_to_json) ==
    PutFile(fs, cache_file_name,
            FileEntry((IF cache_file_name \in DOMAIN fs /\ fs[cache_file_name].kind = "file"
                       THEN fs[cache_file_name].text ELSE "")
                      \o json_dumps(obj_to_json, TRUE, 0)))

\* the directory's entries after _cache_json (the directory is made if absent)
_cache_json(fs, cache_file_name, obj_to_json) ==
    PutFile(fs, cache_file_name, FileEntry(json_dumps(obj_to_json, TRUE, 0)))

\* the names clear_api_cache would remove if keep_prefix=False spared the
\* files that do not start with the prefix
ClearRemovesViceVersa(fs, prefix, keep_prefix) ==
    {f \in DOMAIN fs :
        /\ fs[f].kind = "file"
        /\ keep_prefix = ~StartsWith(f, prefix)}

\* the names clear_api_cache removes
ClearRemoves(fs, prefix, keep_prefix) ==
    {f \in DOMAIN fs :
        /\ fs[f].kind = "file"
        /\ ~(keep_prefix /\ StartsWith(f, prefix))}

----------------------------------------------------------------------------
(* The record normalizer *)

\* record[K :: v] = True for each v of vals
RECURSIVE ColumnVals(_, _, _)
ColumnVals(key, vals, record) ==
    IF vals = <<>> THEN record
    ELSE ColumnVals(key, Tail(vals),
                    DictSet(record, key \o " :: " \o PyStr(Head(vals)), JBool(TRUE)))

\* [exc, record]: the exception raised (NoException if none) and the record
_handle_multi_values(handle, key, values, record) ==
    LET vals == IF values.t = "list" THEN values.items ELSE <<values>>
        ret(r) == [exc |-> NoException, record |-> r]
        IndexError == [exc |-> Exception("IndexError", "list index out of range"),
                       record |-> record]
    IN
    IF IndexOf(MULTI_VALUE_ATTRIBUTE_HANDLING, handle) = 0
    THEN [exc |-> raise_str("Unknown multi-value handling: " \o handle
                            \o " must be: "
                            \o PyStr(JList([i \in 1..Len(MULTI_VALUE_ATTRIBUTE_HANDLING) |->
                                   JStr(MULTI_VALUE_ATTRIBUTE_HANDLING[i])]))),
          record |-> record]
    ELSE CASE handle = "first" ->
                IF vals = <<>> THEN IndexError ELSE ret(DictSet(record, key, vals[1]))
           [] handle = "last" ->
                IF vals = <<>> THEN IndexError
                ELSE ret(DictSet(record, key, vals[Len(vals)]))
           [] handle = "json" ->
                ret(DictSet(record, key, JStr(json_dumps(JList(vals), FALSE, 0))))
           [] handle = "concat" ->
                ret(DictSet(record, key,
                            JStr(Join([i \in 1..Len(vals) |-> PyStr(vals[i])],
                                      multi_value_delim))))
           [] handle = "column_val" -> ret(ColumnVals(key, vals, record))

\* float(val) under try/except: [ok, v], v the float, or val when float()
\* raises.  For a str: blanks around, a sign, then inf, infinity or nan in
\* any case, or digits with a point and an exponent, "_" allowed between
\* two digits.
PyFloat(val) ==
    LET blank == {" ", "\t", "\n", "\r", "\f"}
        ok(v) == [ok |-> TRUE, v |-> v]
        no == [ok |-> FALSE, v |-> val]
        Strip(s, inside) ==
            IF inside = {} THEN ""
            ELSE SubSeq(s, CHOOSE i \in inside : \A k \in inside : i <= k,
                           CHOOSE i \in inside : \A k \in inside : k <= i)
        IsWord(body, w) ==
            /\ Len(body) = Len(w)
            /\ \A i \in 1..Len(w) : Ch(body, i) \in {Ch(w, i), Chr(Ord(Ch(w, i)) - 32)}
        Scanned(plain, neg, int, frac, has_exp, exp, minus) ==
            IF /\ int.ds \o frac.ds # ""
               /\ has_exp => exp.ds # ""
               /\ exp.i = Len(plain) + 1
            THEN ok(Decimal(neg, int.ds, frac.ds,
                            IF minus THEN 0 - IntOf(exp.ds) ELSE IntOf(exp.ds)))
            ELSE no
        AfterFrac(plain, neg, int, frac, has_exp, signed) ==
            Scanned(plain, neg, int, frac, has_exp,
                    IF has_exp
                    THEN ScanDigits(plain, IF signed THEN frac.i + 2 ELSE frac.i + 1, "")
                    ELSE [ds |-> "", i |-> frac.i],
                    Ch(plain, frac.i + 1) = "-")
        AfterInt(plain, neg, int, frac) ==
            AfterFrac(plain, neg, int, frac, Ch(plain, frac.i) \in {"e", "E"},
                      Ch(plain, frac.i + 1) \in {"+", "-"})
        Digits(plain, neg, int) ==
            AfterInt(plain, neg, int,
                     IF Ch(plain, int.i) = "." THEN ScanDigits(plain, int.i + 1, "")
                     ELSE [ds |-> "", i |-> int.i])
        Plain(plain, neg) == Digits(plain, neg, ScanDigits(plain, 1, ""))
        Body(body, neg) ==
            IF IsWord(body, "inf") \/ IsWord(body, "infinity")
            THEN ok([JFloat(IF neg THEN -1 ELSE 1) EXCEPT !.d = 0])
            ELSE IF IsWord(body, "nan")
            THEN ok(NaN)
            ELSE IF \A i \in 1..Len(body) :
                       Ch(body, i) = "_" =>
                          IsDigit(Ch(body, i - 1)) /\ IsDigit(Ch(body, i + 1))
            THEN Plain(Join(Split(body, "_"), ""), neg)
            ELSE no
        Text(text) ==
            Body(IF Ch(text, 1) \in {"+", "-"} THEN SubSeq(text, 2, Len(text)) ELSE text,
                 Ch(text, 1) = "-")
    IN
    CASE val.t = "int" -> ok(JFloat(val.n))
      [] val.t = "float" -> ok(val)
      [] val.t = "bool" -> ok(JFloat(IF val.b THEN 1 ELSE 0))
      [] val.t = "str" ->
            Text(Strip(val.s, {i \in 1..Len(val.s) : Ch(val.s, i) \notin blank}))
      [] OTHER -> no

\* record['Context (i)'] = contexts[i] for i = from..len
RECURSIVE ContextColumns(_, _, _)
ContextColumns(contexts, i, record) ==
    IF i > Len(contexts) THEN record
    ELSE ContextColumns(contexts, i + 1,
                        DictSet(record, CONTEXT_LEVEL_COLUMN_TEMPLATE(i),
                                JStr(contexts[i])))

\* one pass of the loop over raw_record.items(); acc is [exc, record, depth]
ProcessItem(key, value, acc) ==
    LET keyed == DictGet(STANDARD_MULTI_VALUE_HANDLING, key, None)
        handled(r) == [exc |-> r.exc, record |-> r.record, depth |-> acc.depth]
        handle(handling, vals) ==
            handled(_handle_multi_values(handling, key, vals, acc.record))
        \* value_list of float(val), or of val as soon as one float(val) raises
        by_number(floats) ==
            handle(IF \A i \in 1..Len(floats) : floats[i].ok
                   THEN multi_value_handle_number
                   ELSE multi_value_handle_non_number,
                   JList([i \in 1..Len(floats) |-> floats[i].v]))
    IN
    IF key = "context label" /\ value.t # "str"
    THEN [acc EXCEPT !.exc = AttributeError(value, "split")]
    ELSE IF key = "context label"
    THEN LET contexts == Split(value.s, "/") IN
         [exc |-> NoException,
          record |-> ContextColumns(contexts, 1, acc.record),
          depth |-> IF Len(contexts) > acc.depth THEN Len(contexts) ELSE acc.depth]
    ELSE IF Truthy(keyed)
    THEN handle(keyed.s, value)
    ELSE IF value.t # "list"
    THEN [acc EXCEPT !.record = DictSet(acc.record, key, value)]
    ELSE by_number([i \in 1..Len(value.items) |-> PyFloat(value.items[i])])

RECURSIVE ProcessItems(_, _, _)
ProcessItems(raw_record, i, acc) ==
    IF i > Len(raw_record.keys) \/ acc.exc # NoException THEN acc
    ELSE ProcessItems(raw_record, i + 1,
                      ProcessItem(raw_record.keys[i], raw_record.vals[i], acc))

\* [exc, record, depth]: the normalized record and the new value of
\* self.max_result_context_depth, given its value depth before the call
_process_record_attributes(raw_record, depth) ==
    IF raw_record.t # "dict"
    THEN [exc |-> AttributeError(raw_record, "items"), record |-> JDict(<<>>, <<>>),
          depth |-> depth]
    ELSE ProcessItems(raw_record, 1,
                      [exc |-> NoException, record |-> JDict(<<>>, <<>>),
                       depth |-> depth])

\* the loop of get_paged_json_records over raw_records; acc is
\* [exc, records, depth]
RECURSIVE ProcessRecords(_, _, _)
ProcessRecords(raw_records, i, acc) ==
    IF i > Len(raw_records) \/ acc.exc # NoException THEN acc
    ELSE LET append(r) == [exc |-> r.exc,
                           records |-> IF r.exc = NoException
                                       THEN Append(acc.records, r.record)
                                       ELSE acc.records,
                           depth |-> r.depth]
         IN ProcessRecords(raw_records, i + 1,
                           append(_process_record_attributes(raw_records[i], acc.depth)))

----------------------------------------------------------------------------
(* The facet attribute extractors.  A (slug, label) tuple is the JSON list *)
(* of the two.                                                             *)

\* get_standard_attributes without the exception for the zooarchaeology
\* vocabulary
AddAttributesNoZooarch(def_uri) ==
    \/ /\ ~StartsWith(def_uri, "oc-gen:")
       /\ ~StartsWith(def_uri, "oc-api:")
       /\ ~StartsWith(def_uri, "http://opencontext.org")
    \/ StartsWith(def_uri, "oc-api:facet-prop-ld")

\* whether get_standard_attributes adds the options of a facet defined by def_uri
AddAttributes(def_uri) ==
    \/ /\ ~StartsWith(def_uri, "oc-gen:")
       /\ ~StartsWith(def_uri, "oc-api:")
       /\ ~StartsWith(def_uri, "http://opencontext.org")
    \/ StartsWith(def_uri, "oc-api:facet-prop-ld")
    \/ StartsWith(def_uri, "http://opencontext.org/vocabularies/open-context-zooarch/")

\* the loop over facet[check_option]; acc is [exc, value], value the
\* attribute_slug_labels so far
RECURSIVE StandardOptions(_, _, _)
StandardOptions(f_opts, i, acc) ==
    IF i > Len(f_opts) \/ acc.exc # NoException THEN acc
    ELSE LET raise(exc) == [acc EXCEPT !.exc = exc]
             Option(f_opt, slug, label) ==
                 IF f_opt.t # "dict" THEN raise(AttributeError(f_opt, "get"))
                 ELSE IF ~Truthy(slug) \/ ~Truthy(label) THEN acc
                 ELSE IF slug.t # "str" THEN raise(AttributeError(slug, "startswith"))
                 ELSE IF \E p \in 1..Len(NON_ATTRIBUTE_SLUG_PREFIXES) :
                            StartsWith(slug.s, NON_ATTRIBUTE_SLUG_PREFIXES[p])
                 THEN acc
                 ELSE IF \E k \in 1..Len(acc.value) :
                            ItemEq(acc.value[k], JList(<<slug, label>>))
                 THEN acc
                 ELSE [acc EXCEPT !.value = Append(@, JList(<<slug, label>>))]
             At(f_opt) ==
                 Option(f_opt, DictGet(f_opt, "slug", None), DictGet(f_opt, "label", None))
         IN StandardOptions(f_opts, i + 1, At(f_opts[i]))

\* the loop over FACET_OPTIONS_KEYS for one facet; `check_option in facet`
\* is a key of a dict, an item of a list, a part of a str
RECURSIVE StandardOptionGroups(_, _, _)
StandardOptionGroups(facet, k, acc) ==
    IF k > Len(FACET_OPTIONS_KEYS) \/ acc.exc # NoException THEN acc
    ELSE LET raise(exc) == [acc EXCEPT !.exc = exc]
             check_option == FACET_OPTIONS_KEYS[k]
             Options(f_opts) ==
                 IF f_opts.exc # NoException THEN raise(f_opts.exc)
                 ELSE StandardOptions(f_opts.items, 1, acc)
             Group(def_uri) ==
                 IF ~Truthy(def_uri) THEN acc
                 ELSE IF def_uri.t # "str"
                 THEN raise(AttributeError(def_uri, "startswith"))
                 ELSE IF ~AddAttributes(def_uri.s) THEN acc
                 ELSE Options(PyIter(DictGet(facet, check_option, None)))
             in_facet ==
                 CASE facet.t = "dict" -> HasKey(facet, check_option)
                   [] facet.t = "list" ->
                         \E i \in 1..Len(facet.items) :
                             ItemEq(facet.items[i], JStr(check_option))
                   [] facet.t = "str" -> Contains(facet.s, check_option)
                   [] OTHER -> FALSE
         IN
         StandardOptionGroups(facet, k + 1,
             IF facet.t \notin {"dict", "list", "str"}
             THEN raise(Exception("TypeError",
                                  "argument of type '" \o TypeName(facet)
                                  \o "' is not iterable"))
             ELSE IF ~in_facet THEN acc
             ELSE IF facet.t # "dict" THEN raise(AttributeError(facet, "get"))
             ELSE Group(DictGet(facet, "rdfs:isDefinedBy", None)))

\* the loop over json_data['oc-api:has-facets']
RECURSIVE StandardFacets(_, _, _)
StandardFacets(facets, f, acc) ==
    IF f > Len(facets) \/ acc.exc # NoException THEN acc
    ELSE StandardFacets(facets, f + 1, StandardOptionGroups(facets[f], 1, acc))

\* what get_standard_attributes does with the json_data it got: [exc, value]
StandardAttributesOf(json_data) ==
    LET return(v) == [exc |-> NoException, value |-> v]
        raise(exc) == [exc |-> exc, value |-> None]
        Listed(r) == IF r.exc # NoException THEN raise(r.exc) ELSE return(JList(r.value))
        Facets(facets) ==
            IF facets.exc # NoException THEN raise(facets.exc)
            ELSE Listed(StandardFacets(facets.items, 1,
                                       [exc |-> NoException, value |-> <<>>]))
        Found(less) ==
            IF less.exc # NoException THEN raise(less.exc)
            ELSE IF less.v THEN return(JList(<<>>))
            ELSE Facets(PyIter(DictGet(json_data, "oc-api:has-facets", JList(<<>>))))
    IN
    IF ~Truthy(json_data) THEN return(None)
    ELSE IF json_data.t # "dict" THEN raise(AttributeError(json_data, "get"))
    ELSE Found(LessThan1(DictGet(json_data, "totalResults", JInt(0))))

\* what get_common_attributes does with the json_data it got: [exc, value].
\* The class has no attribute FACET_OPTION_KEYS (it is FACET_OPTIONS_KEYS),
\* so the inner loop raises as soon as the outer one finds a facet.
CommonAttributesOf(json_data) ==
    LET return(v) == [exc |-> NoException, value |-> v]
        raise(exc) == [exc |-> exc, value |-> None]
        Facets(facets) ==
            IF facets.exc # NoException THEN raise(facets.exc)
            ELSE IF facets.items # <<>>
            THEN raise(Exception("AttributeError",
                           "'OpenContextAPI' object has no attribute 'FACET_OPTION_KEYS'"))
            ELSE return(JList(<<>>))
        Found(less) ==
            IF less.exc # NoException THEN raise(less.exc)
            ELSE IF less.v THEN return(JList(<<>>))
            ELSE Facets(PyIter(DictGet(json_data, "oc-api:has-facets", JList(<<>>))))
    IN
    IF ~Truthy(json_data) THEN return(None)
    ELSE IF json_data.t # "dict" THEN raise(AttributeError(json_data, "get"))
    ELSE Found(LessThan1(DictGet(json_data, "totalResults", JInt(0))))

----------------------------------------------------------------------------
(* slugify(text) of python-slugify, for ASCII text: letters are lowered,   *)
(* every run of other characters becomes one '-', and the ends are         *)
(* stripped of '-'.                                                        *)


SlugChar(c) ==
    LET UpperChars == "ABCDEFGHIJKLMNOPQRSTUVWXYZ"
        LowerChars == "abcdefghijklmnopqrstuvwxyz"
    IN
    IF Contains(UpperChars, c) THEN Ch(LowerChars, FirstIndex(UpperChars, c))
    ELSE IF Contains(LowerChars, c) \/ IsDigit(c) THEN c
    ELSE "-"

RECURSIVE SlugifyFrom(_, _, _)
SlugifyFrom(text, i, acc) ==
    IF i > Len(text)
    THEN IF acc # "" /\ Ch(acc, Len(acc)) = "-" THEN SubSeq(acc, 1, Len(acc) - 1) ELSE acc
    ELSE LET c == SlugChar(Ch(text, i)) IN
         SlugifyFrom(text, i + 1,
                     IF c = "-" /\ (acc = "" \/ Ch(acc, Len(acc)) = "-") THEN acc
                     ELSE acc \o c)

slugify(text) == SlugifyFrom(text, 1, "")

----------------------------------------------------------------------------
(* The upstream service: the URLs of one query's three pages, of a query   *)
(* with facets and of a query without matches, and the JSON text served    *)
(* for each.  The third page repeats the first page's first record.        *)

PageUrls == <<"oc/q", "oc/q?rows=200&start=200", "oc/q?rows=200&start=400">>
FacetUrl == "oc/f"
ZeroUrl == "oc/z"

PageBodies ==
    LET Rec1Text == "{\"uri\": \"r1\", \"context label\": \"Site/Trench\", \"Material\": [\"bone\", \"shell\"]}"
    IN
    << "{\"totalResults\": 5, \"next\": \"oc/q?rows=200&start=200\", \"oc-api:has-results\": ["
         \o Rec1Text \o ", {\"uri\": \"r2\", \"Count\": [\"3\", \"4\"]}]}",
       "{\"totalResults\": 5, \"next\": \"oc/q?rows=200&start=400\", \"oc-api:has-results\": ["
         \o "{\"uri\": \"r3\", \"context label\": \"Site/Trench/Locus\", \"Has fusion character\": [\"x\", \"y\"]}]}",
       "{\"totalResults\": 5, \"oc-api:has-results\": ["
         \o "{\"uri\": \"r4\", \"context label\": \"Site\"}, " \o Rec1Text \o "]}" >>

ZeroBody == "{\"totalResults\": 0}"

BodyOf(url) ==
    LET FacetBody ==
            "{\"totalResults\": 100, \"oc-api:has-facets\": ["
            \o "{\"rdfs:isDefinedBy\": \"http://opencontext.org/predicates/abc\", \"oc-api:has-id-options\": ["
            \o "{\"slug\": \"p-1\", \"label\": \"P1\", \"rdfs:isDefinedBy\": \"http://opencontext.org/predicates/p1\", \"count\": 20}]}, "
            \o "{\"rdfs:isDefinedBy\": \"http://opencontext.org/vocabularies/open-context-zooarch/x\", \"oc-api:has-id-options\": ["
            \o "{\"slug\": \"z-1\", \"label\": \"Z1\"}, {\"slug\": \"gbif-1\", \"label\": \"G1\"}, {\"slug\": \"z-1\", \"label\": \"Z1\"}]}]}"
    IN
    CASE url = FacetUrl -> FacetBody
      [] url = ZeroUrl -> ZeroBody
      [] OTHER -> PageBodies[IndexOf(PageUrls, url)]

\* what requests.get(url, ...) can come back with: err is a transport
\* exception, otherwise an HTTP status and the body's text
Response(err, status, text) == [err |-> err, status |-> status, text |-> text]

ServerResponses(url) ==
    { Response(FALSE, 200, BodyOf(url)),
      Response(TRUE, 0, ""),
      Response(FALSE, 500, "{\"error\": \"down\"}"),
      Response(FALSE, 200, "<html>"),
      Response(FALSE, 200, "{}"),
      Response(FALSE, 200, "null"),
      Response(FALSE, 200, "{\"error\": \"busy\"}") }

----------------------------------------------------------------------------
(* The state machine: one public call at a time (the class is single-      *)
(* threaded), each run step by step.                                       *)

MaxCalls == 2

EmptyDict == JDict(<<>>, <<>>)

\* op.pc: "running", "raising" (an exception is propagating), "frame"
\* (url_to_dataframe has its records)
Op(name, url, flag, pc, ret, exc) ==
    [name |-> name, url |-> url, flag |-> flag, pc |-> pc, ret |-> ret, exc |-> exc]
IdleOp == Op("idle", "", FALSE, "", None, NoException)

Gcu(pc, url, params, name, obj) ==
    [pc |-> pc, url |-> url, params |-> params, name |-> name, obj |-> obj]
IdleGcu == Gcu("idle", "", EmptyDict, "", None)

Frame(url, do_paging, pc, records, ret) ==
    [url |-> url, do_paging |-> do_paging, pc |-> pc, records |-> records, ret |-> ret]

Result(kind, call, value, exc) ==
    [kind |-> kind, call |-> call, value |-> value, exc |-> exc]
NoResult == Result("none", [name |-> "", url |-> "", flag |-> FALSE], None, NoException)
CallOf(o) == [name |-> o.name, url |-> o.url, flag |-> o.flag]
Returned(o, value) == Result("return", CallOf(o), value, NoException)
Raised(o, exc) == Result("raise", CallOf(o), None, exc)

\* the log of one call of get_cache_url: what the cache held for its key,
\* the pacing sleeps, requests and cache writes it made in order, and how it
\* ended ("pending", "hit", "fetched", "raised")
CallLog(url, params) ==
    [url |-> url, params |-> params, before |-> files, cached |-> None,
     events |-> <<>>, outcome |-> "pending", ret |-> None, exc |-> NoException]

LastCall == hist.calls[Len(hist.calls)]
Logged(log) == [hist EXCEPT !.calls[Len(hist.calls)] = log]
NoHist == [calls |-> <<>>]

DirectRequests ==
    { <<ZeroUrl, EmptyDict>>,
      <<PageUrls[3], JDict(<<"rows">>, <<JInt(RECS_PER_REQUEST)>>)>> }
AttributeUrls == {FacetUrl, ZeroUrl}
WalkUrls == {PageUrls[i] : i \in 1..Len(PageUrls)}
attribute_slugs == <<"24--x", "24--y">>

\* the cache directories the program can start with: none, or yesterday's
\* entry, a sub-directory, a truncated and an undecodable file for keys
\* of today
InitialCaches ==
    { [exists |-> FALSE, files |-> <<>>],
      [exists |-> TRUE,
       files |->
          PutFile(PutFile(PutFile(PutFile(<<>>,
              "2026-10-28-" \o sha1_hexdigest(ZeroUrl) \o ".json",
              FileEntry(json_dumps(json_loads(ZeroBody).v, TRUE, 0))),
              "notes", [kind |-> "dir", text |-> "", utf8 |-> TRUE]),
              _make_url_cache_file_name(TodayPrefix, ZeroUrl, EmptyDict),
              FileEntry("{\n    \"totalRes")),
              _make_url_cache_file_name(TodayPrefix, FacetUrl, EmptyDict),
              [kind |-> "file", text |-> "", utf8 |-> FALSE])] }

Init ==
    /\ cache_file_prefix = TodayPrefix
    /\ max_result_context_depth = 0
    /\ \E c \in InitialCaches : dir_exists = c.exists /\ files = c.files
    /\ op = IdleOp
    /\ stack = <<>>
    /\ gcu = IdleGcu
    /\ result = NoResult
    /\ hist = NoHist
    /\ ncalls = 0
    /\ probe = <<>>

\* a public call starts
Begin ==
    /\ op.name = "idle"
    /\ ncalls < MaxCalls
    /\ ncalls' = ncalls + 1

\* get_cache_url is entered, by a public call (first) or by the walker
Enter(url, params, first) ==
    /\ gcu' = Gcu("lookup", url, params, "", None)
    /\ hist' = [calls |-> Append(IF first THEN <<>> ELSE hist.calls,
                                 CallLog(url, params))]

set_cache_file_prefix(text_for_prefix) ==
    /\ Begin
    /\ cache_file_prefix' = slugify(text_for_prefix)
    /\ result' = Returned(Op("set_cache_file_prefix", text_for_prefix, FALSE, "", None,
                             NoException), None)
    /\ hist' = NoHist
    /\ UNCHANGED <<max_result_context_depth, dir_exists, files, op, stack, gcu, probe>>

clear_api_cache(keep_prefix) ==
    /\ Begin
    /\ files' = IF dir_exists
                THEN RemoveFiles(files, ClearRemoves(files, cache_file_prefix, keep_prefix))
                ELSE files
    /\ result' = Returned(Op("clear_api_cache", "", keep_prefix, "", None, NoException),
                          None)
    /\ hist' = NoHist
    /\ UNCHANGED <<cache_file_prefix, max_result_context_depth, dir_exists, op, stack,
                   gcu, probe>>

(* get_cache_url *)

get_cache_url(url, extra_params) ==
    /\ Begin
    /\ result' = NoResult
    /\ op' = Op("get_cache_url", url, FALSE, "running", None, NoException)
    /\ Enter(url, extra_params, TRUE)
    /\ UNCHANGED <<cache_file_prefix, max_result_context_depth, dir_exists, files,
                   stack, probe>>

\* the exception get_cache_url raises for a failed request
RequestFail(url) == raise_str("Request fail with URL: " \o url)

\* get_cache_url had it slept before it looked into the cache
GcuLookupSleepFirst ==
    /\ gcu.pc = "lookup"
    /\ LET cache_file_name ==
               _make_url_cache_file_name(cache_file_prefix, gcu.url, gcu.params)
           obj_from_json == _get_parse_cached_json(files, cache_file_name)
       IN
       IF Truthy(obj_from_json)
       THEN /\ gcu' = [gcu EXCEPT !.pc = "returned", !.name = cache_file_name,
                                  !.obj = obj_from_json]
            /\ hist' = Logged([LastCall EXCEPT !.cached = obj_from_json,
                                               !.events = Append(@, "sleep"),
                                               !.outcome = "hit",
                                               !.ret = obj_from_json])
       ELSE /\ gcu' = [gcu EXCEPT !.pc = "request", !.name = cache_file_name,
                                  !.params = _modify_get_params_by_url_check(
                                                 gcu.url, gcu.params)]
            /\ hist' = Logged([LastCall EXCEPT !.cached = obj_from_json,
                                               !.events = Append(@, "sleep")])
    /\ UNCHANGED <<cache_file_prefix, max_result_context_depth, dir_exists, files, op,
                   stack, result, ncalls, probe>>

\* the key is made and the cache is read: a hit returns the cached object
GcuLookup ==
    /\ gcu.pc = "lookup"
    /\ LET cache_file_name ==
               _make_url_cache_file_name(cache_file_prefix, gcu.url, gcu.params)
           obj_from_json == _get_parse_cached_json(files, cache_file_name)
       IN
       IF Truthy(obj_from_json)
       THEN /\ gcu' = [gcu EXCEPT !.pc = "returned", !.name = cache_file_name,
                                  !.obj = obj_from_json]
            /\ hist' = Logged([LastCall EXCEPT !.cached = obj_from_json,
                                               !.outcome = "hit",
                                               !.ret = obj_from_json])
       ELSE /\ gcu' = [gcu EXCEPT !.pc = "sleep", !.name = cache_file_name,
                                  !.params = _modify_get_params_by_url_check(
                                                 gcu.url, gcu.params)]
            /\ hist' = Logged([LastCall EXCEPT !.cached = obj_from_json])
    /\ UNCHANGED <<cache_file_prefix, max_result_context_depth, dir_exists, files, op,
                   stack, result, ncalls, probe>>

\* sleep(self.sleep_time)
GcuSleep ==
    /\ gcu.pc = "sleep"
    /\ gcu' = [gcu EXCEPT !.pc = "request"]
    /\ hist' = Logged([LastCall EXCEPT !.events = Append(@, "sleep")])
    /\ UNCHANGED <<cache_file_prefix, max_result_context_depth, dir_exists, files, op,
                   stack, result, ncalls, probe>>

\* obj_from_oc after the try block, for the response r
ObjFromOc(r) ==
    IF r.err \/ r.status >= 400 \/ ~json_loads(r.text).ok THEN None
    ELSE json_loads(r.text).v

\* requests.get, raise_for_status and r.json() under try/except
GcuRequest ==
    /\ gcu.pc = "request"
    /\ \E r \in ServerResponses(gcu.url) :
          gcu' = [gcu EXCEPT !.pc = "check", !.obj = ObjFromOc(r)]
    /\ hist' = Logged([LastCall EXCEPT !.events = Append(@, "GET")])
    /\ UNCHANGED <<cache_file_prefix, max_result_context_depth, dir_exists, files, op,
                   stack, result, ncalls, probe>>

\* get_cache_url had it cached the response before it tested it
GcuCheckCacheFirst ==
    /\ gcu.pc = "check"
    /\ dir_exists' = TRUE
    /\ files' = _cache_json(files, gcu.name, gcu.obj)
    /\ IF ~Truthy(gcu.obj)
       THEN /\ gcu' = IdleGcu
            /\ op' = [op EXCEPT !.pc = "raising", !.exc = RequestFail(gcu.url)]
            /\ hist' = Logged([LastCall EXCEPT !.events = Append(@, "write"),
                                               !.outcome = "raised",
                                               !.exc = RequestFail(gcu.url)])
       ELSE /\ gcu' = [gcu EXCEPT !.pc = "returned"]
            /\ hist' = Logged([LastCall EXCEPT !.events = Append(@, "write"),
                                               !.outcome = "fetched",
                                               !.ret = gcu.obj])
            /\ op' = op
    /\ UNCHANGED <<cache_file_prefix, max_result_context_depth, stack, result, ncalls,
                   probe>>

\* a failed request raises; otherwise the object is cached and returned
GcuCheck ==
    /\ gcu.pc = "check"
    /\ IF ~Truthy(gcu.obj)
       THEN /\ gcu' = IdleGcu
            /\ op' = [op EXCEPT !.pc = "raising", !.exc = RequestFail(gcu.url)]
            /\ hist' = Logged([LastCall EXCEPT !.outcome = "raised",
                                               !.exc = RequestFail(gcu.url)])
            /\ UNCHANGED <<dir_exists, files>>
       ELSE /\ gcu' = [gcu EXCEPT !.pc = "returned"]
            /\ dir_exists' = TRUE
            /\ files' = _cache_json(files, gcu.name, gcu.obj)
            /\ hist' = Logged([LastCall EXCEPT !.events = Append(@, "write"),
                                               !.outcome = "fetched",
                                               !.ret = gcu.obj])
            /\ op' = op
    /\ UNCHANGED <<cache_file_prefix, max_result_context_depth, stack, result, ncalls,
                   probe>>

\* get_cache_url returns to the caller that called it as a public method
GetCacheUrlReturn ==
    /\ op.name = "get_cache_url"
    /\ gcu.pc = "returned"
    /\ result' = Returned(op, gcu.obj)
    /\ op' = IdleOp
    /\ gcu' = IdleGcu
    /\ UNCHANGED <<cache_file_prefix, max_result_context_depth, dir_exists, files,
                   stack, hist, ncalls, probe>>

\* the walker had it caught the exception of a page and returned the records
\* it has
PropagateExceptionCaught ==
    /\ op.pc = "raising"
    /\ IF stack # <<>>
       THEN /\ stack' = [stack EXCEPT ![Len(stack)] =
                            [pc |-> "return", ret |-> JList(@.records), url |-> @.url,
                             do_paging |-> @.do_paging, records |-> @.records]]
            /\ op' = [op EXCEPT !.pc = "running", !.exc = NoException]
            /\ result' = result
       ELSE /\ result' = Raised(op, op.exc)
            /\ op' = IdleOp
            /\ stack' = stack
    /\ UNCHANGED <<cache_file_prefix, max_result_context_depth, dir_exists, files, gcu,
                   hist, ncalls, probe>>

\* an exception leaves one more frame of get_paged_json_records, or, with
\* no frame left, the public call: nothing in the class catches it
PropagateException ==
    /\ op.pc = "raising"
    /\ IF stack # <<>>
       THEN /\ stack' = SubSeq(stack, 1, Len(stack) - 1)
            /\ UNCHANGED <<op, result>>
       ELSE /\ result' = Raised(op, op.exc)
            /\ op' = IdleOp
            /\ stack' = stack
    /\ UNCHANGED <<cache_file_prefix, max_result_context_depth, dir_exists, files, gcu,
                   hist, ncalls, probe>>

(* get_standard_attributes and get_common_attributes *)

get_standard_attributes(url, add_von_den_driesch_bone_measures) ==
    /\ Begin
    /\ result' = NoResult
    /\ op' = Op("get_standard_attributes", url, add_von_den_driesch_bone_measures,
                "running", None, NoException)
    /\ Enter(url,
             IF add_von_den_driesch_bone_measures
             THEN JDict(<<"prop">>, <<JStr(VON_DEN_DRIESCH_PROP)>>)
             ELSE EmptyDict,
             TRUE)
    /\ UNCHANGED <<cache_file_prefix, max_result_context_depth, dir_exists, files,
                   stack, probe>>

get_common_attributes(url) ==
    /\ Begin
    /\ result' = NoResult
    /\ op' = Op("get_common_attributes", url, FALSE, "running", None, NoException)
    /\ Enter(url, EmptyDict, TRUE)
    /\ UNCHANGED <<cache_file_prefix, max_result_context_depth, dir_exists, files,
                   stack, probe>>

\* the rest of either method, once get_cache_url returned json_data
AttributesReturn ==
    /\ op.name \in {"get_standard_attributes", "get_common_attributes"}
    /\ gcu.pc = "returned"
    /\ LET r == IF op.name = "get_standard_attributes"
                THEN StandardAttributesOf(gcu.obj)
                ELSE CommonAttributesOf(gcu.obj)
       IN
       IF r.exc # NoException
       THEN /\ op' = [op EXCEPT !.pc = "raising", !.exc = r.exc]
            /\ result' = result
       ELSE /\ op' = IdleOp
            /\ result' = Returned(op, r.value)
    /\ gcu' = IdleGcu
    /\ UNCHANGED <<cache_file_prefix, max_result_context_depth, dir_exists, files,
                   stack, hist, ncalls, probe>>

(* get_paged_json_records and url_to_dataframe *)

Top == stack[Len(stack)]
SetTop(frame) == [stack EXCEPT ![Len(stack)] = frame]

\* params of get_paged_json_records
PagedParams(slugs) ==
    LET p1 == DictSet(EmptyDict, "rows", JInt(RECS_PER_REQUEST))
        p2 == IF Len(slugs) # 0 THEN DictSet(p1, "attributes", JStr(Join(slugs, ",")))
              ELSE p1
        p3 == IF Len(RESPONSE_TYPE_LIST) # 0
              THEN DictSet(p2, "response", JStr(Join(RESPONSE_TYPE_LIST, ",")))
              ELSE p2
    IN IF FLATTEN_ATTRIBUTES THEN DictSet(p3, "flatten-attributes", JInt(1)) ELSE p3

get_paged_json_records(url, do_paging) ==
    /\ Begin
    /\ result' = NoResult
    /\ op' = Op("get_paged_json_records", url, do_paging, "running", None, NoException)
    /\ stack' = <<Frame(url, do_paging, "call", <<>>, None)>>
    /\ hist' = NoHist
    /\ UNCHANGED <<cache_file_prefix, max_result_context_depth, dir_exists, files, gcu,
                   probe>>

\* url_to_dataframe without the reset of max_result_context_depth
url_to_dataframe_no_reset(url) ==
    /\ Begin
    /\ result' = NoResult
    /\ op' = Op("url_to_dataframe", url, TRUE, "running", None, NoException)
    /\ stack' = <<Frame(url, TRUE, "call", <<>>, None)>>
    /\ hist' = NoHist
    /\ UNCHANGED <<cache_file_prefix, max_result_context_depth, dir_exists, files, gcu,
                   probe>>

\* self.max_result_context_depth = 0, then the walk with do_paging=True
url_to_dataframe(url) ==
    /\ Begin
    /\ result' = NoResult
    /\ max_result_context_depth' = 0
    /\ op' = Op("url_to_dataframe", url, TRUE, "running", None, NoException)
    /\ stack' = <<Frame(url, TRUE, "call", <<>>, None)>>
    /\ hist' = NoHist
    /\ UNCHANGED <<cache_file_prefix, dir_exists, files, gcu, probe>>

\* the innermost activation builds params and calls get_cache_url
PagedCall ==
    /\ stack # <<>>
    /\ op.pc = "running"
    /\ Top.pc = "call"
    /\ stack' = SetTop([Top EXCEPT !.pc = "wait"])
    /\ Enter(Top.url, PagedParams(attribute_slugs), FALSE)
    /\ UNCHANGED <<cache_file_prefix, max_result_context_depth, dir_exists, files, op,
                   result, ncalls, probe>>

\* the activation had it read the link to the first page for the link to
\* the next
first_url(json_data) == JStr(PageUrls[1])

\* next_url = json_data.get('next')
next_url(json_data) == DictGet(json_data, "next", None)

\* what the activation does with a truthy json_data up to the check for
\* 'next': [exc, records, depth, next_url]
PageOf(json_data, depth) ==
    LET fail(exc) == [exc |-> exc, records |-> <<>>, depth |-> depth, next_url |-> None]
        startIndex == DictGet(json_data, "startIndex", JInt(0))
        last_rec == PyAdd(startIndex, DictGet(json_data, "itemsPerPage", JInt(0)))
        greater == GreaterExc(last_rec.v, DictGet(json_data, "totalResults", None))
        first_rec == PyAdd(startIndex, JInt(1))
        processed(r) == [exc |-> r.exc, records |-> r.records, depth |-> r.depth,
                         next_url |-> next_url(json_data)]
        process(raw_records) ==
            IF raw_records.exc # NoException THEN fail(raw_records.exc)
            ELSE processed(ProcessRecords(raw_records.items, 1,
                              [exc |-> NoException, records |-> <<>>, depth |-> depth]))
    IN IF json_data.t # "dict" THEN fail(AttributeError(json_data, "get"))
       ELSE IF last_rec.exc # NoException THEN fail(last_rec.exc)
       ELSE IF greater # NoException THEN fail(greater)
       ELSE IF first_rec.exc # NoException THEN fail(first_rec.exc)
       ELSE process(PyIter(DictGet(json_data, "oc-api:has-results", JList(<<>>))))

\* the exception of the recursive call for a next_url that is not a str:
\* the cache key builder raises it at '#' in url, url.split or
\* url + extra_suffix
UrlTypeError(url) ==
    CASE IsNumber(url) ->
            Exception("TypeError",
                      "argument of type '" \o TypeName(url) \o "' is not iterable")
      [] \E i \in 1..Len(PyIter(url).items) : ItemEq(PyIter(url).items[i], JStr("#")) ->
            AttributeError(url, "split")
      [] OTHER -> PyAdd(url, JStr("")).exc

\* the records of the activation's page, then the recursive call for the
\* next page or the return
PagedProcess ==
    /\ stack # <<>>
    /\ Top.pc = "wait"
    /\ gcu.pc = "returned"
    /\ gcu' = IdleGcu
    /\ IF ~Truthy(gcu.obj)
       THEN /\ stack' = SetTop([Top EXCEPT !.pc = "return", !.ret = None])
            /\ UNCHANGED <<op, max_result_context_depth>>
       ELSE LET page == PageOf(gcu.obj, max_result_context_depth) IN
            /\ max_result_context_depth' = page.depth
            /\ IF page.exc # NoException
               THEN /\ op' = [op EXCEPT !.pc = "raising", !.exc = page.exc]
                    /\ stack' = stack
               ELSE IF Top.do_paging /\ Truthy(page.next_url) /\ page.next_url.t # "str"
               THEN /\ op' = [op EXCEPT !.pc = "raising",
                                        !.exc = UrlTypeError(page.next_url)]
                    /\ stack' = stack
               ELSE /\ op' = op
                    /\ stack' =
                          IF Top.do_paging /\ Truthy(page.next_url)
                          THEN Append(SetTop([Top EXCEPT !.pc = "recurse",
                                                         !.records = page.records]),
                                      Frame(page.next_url.s, Top.do_paging, "call",
                                            <<>>, None))
                          ELSE SetTop([Top EXCEPT !.pc = "return",
                                                  !.records = page.records,
                                                  !.ret = JList(page.records)])
    /\ UNCHANGED <<cache_file_prefix, dir_exists, files, result, hist, ncalls, probe>>

\* the later pages' records put before the caller's
ExtendRecordsBefore(records, returned) ==
    IF returned.t # "list"
    THEN [exc |-> Exception("TypeError", "'NoneType' object is not iterable"),
          ret |-> None]
    ELSE [exc |-> NoException, ret |-> JList(returned.items \o records)]

\* records += <what the recursive call returned>, for the caller's records
\* and the value returned: [exc, ret]
ExtendRecords(records, returned) ==
    IF returned.t # "list"
    THEN [exc |-> Exception("TypeError", "'NoneType' object is not iterable"),
          ret |-> None]
    ELSE [exc |-> NoException, ret |-> JList(records \o returned.items)]

\* the innermost activation returns: to the activation that called it, which
\* extends its records and returns in turn, or to the public caller
PagedReturn ==
    /\ stack # <<>>
    /\ op.pc = "running"
    /\ Top.pc = "return"
    /\ IF Len(stack) > 1
       THEN LET caller == stack[Len(stack) - 1]
                r == ExtendRecords(caller.records, Top.ret)
            IN
            /\ stack' = Append(SubSeq(stack, 1, Len(stack) - 2),
                               [caller EXCEPT !.pc = "return", !.ret = r.ret])
            /\ op' = IF r.exc # NoException
                     THEN [op EXCEPT !.pc = "raising", !.exc = r.exc]
                     ELSE op
            /\ result' = result
       ELSE /\ stack' = <<>>
            /\ IF op.name = "url_to_dataframe"
               THEN /\ op' = [op EXCEPT !.pc = "frame", !.ret = Top.ret]
                    /\ result' = result
               ELSE /\ op' = IdleOp
                    /\ result' = Returned(op, Top.ret)
    /\ UNCHANGED <<cache_file_prefix, max_result_context_depth, dir_exists, files, gcu,
                   hist, ncalls, probe>>

----------------------------------------------------------------------------
(* _reorder_dataframe_columns.  A table is the sequence of its columns, in *)
(* the table's order; of a column the function reads the name, the dtype   *)
(* and the number of distinct values (len(df[col].unique())).  A table     *)
(* made from a list of dicts has no column name twice.                     *)

DEFAULT_FIRST_DF_COLUMNS ==
    <<"uri", "citation uri", "label", "item category", "project label", "project uri",
      "published", "updated", "latitude", "longitude", "early bce/ce", "late bce/ce",
      "context uri">>

\* a < b for Python str: by code points
RECURSIVE StrLess(_, _)
StrLess(a, b) ==
    IF b = "" THEN FALSE
    ELSE IF a = "" THEN TRUE
    ELSE IF Ch(a, 1) # Ch(b, 1)
    THEN Ord(Ch(a, 1)) < Ord(Ch(b, 1))
    ELSE StrLess(SubSeq(a, 2, Len(a)), SubSeq(b, 2, Len(b)))

\* list.sort() by the key named: the elements of seq in the order of Less,
\* those that Less does not tell apart in the order seq has them (stable)
SortBy(seq, key) ==
    LET Less(x, y) == CASE key = "nunique" -> x.nunique < y.nunique
                        [] key = "-nunique" -> x.nunique > y.nunique
                        [] OTHER -> StrLess(x.name, y.name)
        Rank(i) == Cardinality({j \in 1..Len(seq) :
                                   \/ Less(seq[j], seq[i])
                                   \/ (~Less(seq[i], seq[j]) /\ j < i)}) + 1
    IN [r \in 1..Len(seq) |-> seq[CHOOSE i \in 1..Len(seq) : Rank(i) = r]]

\* the function had it sorted the object columns with sorted(...)[::-1] on
\* the negated count: columns of equal count come out in reverse
_reorder_dataframe_columns_unstable(df, depth) ==
    LET names == {df[i].name : i \in 1..Len(df)}
        col(name) == df[CHOOSE i \in 1..Len(df) : df[i].name = name]
        context_cols == [i \in 1..depth |-> CONTEXT_LEVEL_COLUMN_TEMPLATE(i)]
        first_cols == SelectSeq(DEFAULT_FIRST_DF_COLUMNS \o context_cols,
                                LAMBDA c : c \in names)
        other_cols == SelectSeq(df, LAMBDA c : c.name \notin Range(first_cols))
        sorted == SortBy(SelectSeq(other_cols, LAMBDA c : c.dtype = "object"),
                         "-nunique")
        obj_cols == [i \in 1..Len(sorted) |-> sorted[Len(sorted) + 1 - i]]
        bool_cols == SortBy(SelectSeq(other_cols, LAMBDA c : c.dtype = "bool"),
                            "name")
        middle_cols == obj_cols \o bool_cols
        final_cols == SortBy(SelectSeq(other_cols, LAMBDA c : c \notin Range(middle_cols)),
                             "name")
    IN [i \in 1..Len(first_cols) |-> col(first_cols[i])] \o middle_cols \o final_cols

\* df[(first_cols + middle_cols + final_cols)] for max_result_context_depth
\* = depth
_reorder_dataframe_columns(df, depth) ==
    LET names == {df[i].name : i \in 1..Len(df)}
        col(name) == df[CHOOSE i \in 1..Len(df) : df[i].name = name]
        context_cols == [i \in 1..depth |-> CONTEXT_LEVEL_COLUMN_TEMPLATE(i)]
        first_cols == SelectSeq(DEFAULT_FIRST_DF_COLUMNS \o context_cols,
                                LAMBDA c : c \in names)
        other_cols == SelectSeq(df, LAMBDA c : c.name \notin Range(first_cols))
        obj_cols == SortBy(SelectSeq(other_cols, LAMBDA c : c.dtype = "object"),
                           "nunique")
        bool_cols == SortBy(SelectSeq(other_cols, LAMBDA c : c.dtype = "bool"),
                            "name")
        middle_cols == obj_cols \o bool_cols
        final_cols == SortBy(SelectSeq(other_cols, LAMBDA c : c \notin Range(middle_cols)),
                             "name")
    IN [i \in 1..Len(first_cols) |-> col(first_cols[i])] \o middle_cols \o final_cols

(* The dataframe of url_to_dataframe.  pandas is not part of the source;   *)
(* the model takes of it what the three steps use: a frame made from a     *)
(* list of dicts has one column per key, in the order the keys first       *)
(* appear, with NaN where a record lacks the key, and a column is bool or  *)
(* int64 when all its values are, float64 when they are numbers and None   *)
(* or NaN, object otherwise.  A column is [name, dtype, values]; a frame    *)
(* is the sequence of its columns and the number of its rows.              *)

\* pd.DataFrame(records): the columns
pd_DataFrame(records) ==
    LET recs == IF records.t = "list" THEN records.items ELSE <<>>
        names == FirstSeen(Flatten([i \in 1..Len(recs) |-> recs[i].keys]))
        column(name) ==
            LET vals == [i \in 1..Len(recs) |-> DictGet(recs[i], name, NaN)]
                types == {vals[i].t : i \in 1..Len(recs)}
                dtype == IF types = {"bool"} THEN "bool"
                         ELSE IF types = {"int"} THEN "int64"
                         ELSE IF types \subseteq {"int", "float", "null"} /\ types # {"null"}
                         THEN "float64"
                         ELSE "object"
            IN [name |-> name, dtype |-> dtype,
                values |-> IF dtype # "float64" THEN vals
                           ELSE [i \in 1..Len(recs) |->
                                    CASE vals[i].t = "int" -> JFloat(vals[i].n)
                                      [] vals[i].t = "null" -> NaN
                                      [] OTHER -> vals[i]]]
    IN [c \in 1..Len(names) |-> column(names[c])]

\* infer_dtype(skipna=True) is 'boolean' for an object column whose values
\* other than None and NaN are bools, and there is one: the column is filled
\* with False and cast to bool.  The casts of the columns that are bool,
\* int64 and float64 already change nothing, and no column of JSON values
\* is 'decimal' or 'datetime'.
_infer__set_dataframe_col_datatypes(df) ==
    [c \in 1..Len(df) |->
        LET present == {i \in 1..Len(df[c].values) : df[c].values[i] \notin {None, NaN}} IN
        IF /\ df[c].dtype = "object"
           /\ present # {}
           /\ \A i \in present : df[c].values[i].t = "bool"
        THEN [name |-> df[c].name, dtype |-> "bool",
              values |-> [i \in 1..Len(df[c].values) |->
                             IF i \in present THEN df[c].values[i] ELSE JBool(FALSE)]]
        ELSE df[c]]

\* lines 754 to 762 for the records of the walk: [exc, df].
\* len(df[col].unique().tolist()) counts the values that no earlier value
\* equals (NaN is one value); unique() raises on a list or a dict, in an
\* object column that is not among the first columns.
records_to_dataframe(records, depth) ==
    LET NUnique(values) ==
            Cardinality({i \in 1..Len(values) :
                            \A k \in 1..(i - 1) :
                               /\ ~PyEq(values[k], values[i])
                               /\ ~(values[k] = NaN /\ values[i] = NaN)})
        first_cols == Range(DEFAULT_FIRST_DF_COLUMNS)
                      \cup {CONTEXT_LEVEL_COLUMN_TEMPLATE(i) : i \in 1..depth}
        counted(col) == col.dtype = "object" /\ col.name \notin first_cols
        Returned_df(unhashable, ordered) ==
            IF unhashable # <<>>
            THEN [exc |-> Exception("TypeError",
                                    "unhashable type: '" \o TypeName(unhashable[1]) \o "'"),
                  df |-> None]
            ELSE [exc |-> NoException,
                  df |-> [t |-> "dataframe",
                          index |-> IF records.t = "list" THEN Len(records.items) ELSE 0,
                          columns |-> [c \in 1..Len(ordered) |->
                                          [name |-> ordered[c].name,
                                           dtype |-> ordered[c].dtype,
                                           values |-> ordered[c].values]]]]
        Reordered(df) ==
            Returned_df(
                Flatten([c \in 1..Len(df) |->
                            IF counted(df[c])
                            THEN SelectSeq(df[c].values, LAMBDA v : v.t \in {"list", "dict"})
                            ELSE <<>>]),
                _reorder_dataframe_columns(
                    [c \in 1..Len(df) |->
                        [name |-> df[c].name, dtype |-> df[c].dtype,
                         values |-> df[c].values,
                         nunique |-> IF counted(df[c]) THEN NUnique(df[c].values) ELSE 0]],
                    depth))
    IN Reordered(_infer__set_dataframe_col_datatypes(pd_DataFrame(records)))

\* df = pd.DataFrame(records), the column datatypes, the column order, and
\* the return
UrlToDataframeReturn ==
    /\ op.name = "url_to_dataframe"
    /\ op.pc = "frame"
    /\ LET r == records_to_dataframe(op.ret, max_result_context_depth) IN
       IF r.exc # NoException
       THEN /\ op' = [op EXCEPT !.pc = "raising", !.exc = r.exc]
            /\ result' = result
       ELSE /\ op' = IdleOp
            /\ result' = Returned(op, r.df)
    /\ UNCHANGED <<cache_file_prefix, max_result_context_depth, dir_exists, files,
                   stack, gcu, hist, ncalls, probe>>

Next ==
    \/ \E text \in {"My Run", "my run 2"} : set_cache_file_prefix(text)
    \/ \E keep_prefix \in BOOLEAN : clear_api_cache(keep_prefix)
    \/ \E rq \in DirectRequests : get_cache_url(rq[1], rq[2])
    \/ GcuLookup
    \/ GcuSleep
    \/ GcuRequest
    \/ GcuCheck
    \/ GetCacheUrlReturn
    \/ PropagateException
    \/ \E url \in AttributeUrls, b \in BOOLEAN : get_standard_attributes(url, b)
    \/ \E url \in AttributeUrls : get_common_attributes(url)
    \/ AttributesReturn
    \/ \E url \in WalkUrls, do_paging \in BOOLEAN : get_paged_json_records(url, do_paging)
    \/ \E url \in WalkUrls : url_to_dataframe(url)
    \/ PagedCall
    \/ PagedProcess
    \/ PagedReturn
    \/ UrlToDataframeReturn

Spec == Init /\ [][Next]_vars

----------------------------------------------------------------------------
(* The pure functions on their own.  Each specification below draws the    *)
(* inputs of one function in its initial states, applies the function in   *)
(* one step and keeps inputs and outputs in probe; the object is idle.     *)

IdleObject ==
    /\ max_result_context_depth = 0
    /\ op = IdleOp
    /\ stack = <<>>
    /\ gcu = IdleGcu
    /\ result = NoResult
    /\ hist = NoHist
    /\ ncalls = 0

(* _make_url_cache_file_name for two requests that differ by one extra     *)
(* parameter: (url, params) and (url, params + {k: v})                     *)

InitKey ==
    LET KeyUrls ==
            {"oc/q", "oc/q?rows=10", "oc/q?q=x&rows=10&prop=a", "oc/q?prop=a#response=",
             "oc/q?response=metadata#top"}
        KeyParams ==
            { EmptyDict,
              JDict(<<"rows">>, <<JInt(RECS_PER_REQUEST)>>),
              JDict(<<"response">>, <<JStr("metadata,uri-meta")>>),
              JDict(<<"prop">>, <<JStr("b")>>),
              JDict(<<"rows", "attributes">>, <<JInt(RECS_PER_REQUEST), JStr("24--x")>>) }
        KeyExtras ==
            { <<"rows", JInt(RECS_PER_REQUEST)>>, <<"response", JStr("metadata")>>,
              <<"prop", JStr("a")>>, <<"prop", JStr("b")>> }
    IN
    /\ IdleObject
    /\ cache_file_prefix \in {TodayPrefix, slugify("My Run")}
    /\ dir_exists = FALSE
    /\ files = <<>>
    /\ \E url \in KeyUrls, params \in KeyParams, extra \in KeyExtras :
          /\ ~HasKey(params, extra[1])
          /\ probe = [fn |-> "_make_url_cache_file_name", phase |-> "input",
                      url |-> url, params |-> params, k |-> extra[1], v |-> extra[2],
                      name1 |-> "", name2 |-> ""]

MakeNames ==
    /\ probe.phase = "input"
    /\ probe' = [probe EXCEPT
                   !.phase = "done",
                   !.name1 = _make_url_cache_file_name(cache_file_prefix, probe.url,
                                                       probe.params),
                   !.name2 = _make_url_cache_file_name(cache_file_prefix, probe.url,
                                 DictSet(probe.params, probe.k, probe.v))]
    /\ UNCHANGED <<cache_file_prefix, max_result_context_depth, dir_exists, files, op,
                   stack, gcu, result, hist, ncalls>>

SpecKey == InitKey /\ [][MakeNames]_vars

\* the query string of a URL: what follows the first '?', without the fragment
QueryString(url) ==
    LET u == Split(url, "#")[1] IN
    IF Contains(u, "?") THEN SubSeq(u, FirstIndex(u, "?") + 1, Len(u)) ELSE ""

\* C1: two requests that differ only by an extra parameter k whose `k=` is
\* already in the URL's query string get the same cache file name (for the
\* repeatable parameter prop: whose `prop=value` is already there).
C1_EmbeddedParamSameName ==
    (/\ probe.phase = "done"
     /\ Contains(QueryString(probe.url), probe.k \o "=")
     /\ probe.k = "prop" => Contains(QueryString(probe.url), "prop=" \o probe.v.s))
    => probe.name1 = probe.name2

\* the same, for requests that have another extra parameter that stays
C1_SameNameWhenParamsRemain ==
    (/\ probe.phase = "done"
     /\ Contains(QueryString(probe.url), probe.k \o "=")
     /\ probe.k = "prop" => Contains(QueryString(probe.url), "prop=" \o probe.v.s)
     /\ Truthy(_modify_get_params_by_url_check(Split(probe.url, "#")[1], probe.params)))
    => probe.name1 = probe.name2

(* _cache_json and _get_parse_cached_json.  probe.written is the last      *)
(* payload written under each name since the start (None for none, with    *)
(* has_written telling the two apart), probe.read the last read.           *)

CacheNames ==
    { _make_url_cache_file_name(TodayPrefix, ZeroUrl, EmptyDict),
      _make_url_cache_file_name(TodayPrefix, PageUrls[1], EmptyDict) }
YesterdayName == _make_url_cache_file_name("2026-10-28", ZeroUrl, EmptyDict)
ReadNames ==
    CacheNames \cup {"notes", YesterdayName,
                     _make_url_cache_file_name(TodayPrefix, FacetUrl, EmptyDict)}
JsonPayloads ==
    { None, JBool(TRUE), JInt(0), JInt(-7), JFloat(3), Decimal(TRUE, "12", "50", 0),
      JStr(""), JStr("a \"b\" \\ c\nd"), JStr("e\tf\rg\fh"),
      JList(<<>>), EmptyDict,
      JList(<<JInt(1), JStr("x"), None, JList(<<JBool(FALSE)>>)>>),
      JDict(<<"k", "a b">>, <<JList(<<EmptyDict>>), JDict(<<"n">>, <<JInt(42)>>)>>),
      json_loads(PageBodies[2]).v }

InitCache ==
    /\ IdleObject
    /\ cache_file_prefix = TodayPrefix
    /\ \E c \in InitialCaches : dir_exists = c.exists /\ files = c.files
    /\ probe = [fn |-> "_cache_json",
                has_written |-> {},
                written |-> [n \in CacheNames |-> None],
                read |-> [done |-> FALSE, name |-> "", value |-> None]]

CacheJson(cache_file_name, obj_to_json) ==
    /\ dir_exists' = TRUE
    /\ files' = _cache_json(files, cache_file_name, obj_to_json)
    /\ probe' = [probe EXCEPT !.has_written = @ \cup {cache_file_name},
                              !.written[cache_file_name] = obj_to_json,
                              !.read = [done |-> FALSE, name |-> "", value |-> None]]
    /\ UNCHANGED <<cache_file_prefix, max_result_context_depth, op, stack, gcu, result,
                   hist, ncalls>>

GetParseCachedJson(cache_file_name) ==
    /\ probe' = [probe EXCEPT !.read = [done |-> TRUE, name |-> cache_file_name,
                                        value |-> _get_parse_cached_json(
                                                      files, cache_file_name)]]
    /\ UNCHANGED <<cache_file_prefix, max_result_context_depth, dir_exists, files, op,
                   stack, gcu, result, hist, ncalls>>

NextCache ==
    \/ \E n \in CacheNames, obj \in JsonPayloads : CacheJson(n, obj)
    \/ \E n \in ReadNames : GetParseCachedJson(n)

SpecCache == InitCache /\ [][NextCache]_vars

\* C8: a read returns the last payload written under the name; a read of a
\* name that was not written returns None when the name has no file, or is a
\* sub-directory, a truncated or an undecodable file (and what an earlier
\* run wrote when the file is that run's).
C8_CacheRoundTrip ==
    probe.read.done =>
        IF probe.read.name \in probe.has_written
        THEN probe.read.value = probe.written[probe.read.name]
        ELSE IF probe.read.name = YesterdayName /\ YesterdayName \in DOMAIN files
        THEN probe.read.value = json_loads(ZeroBody).v
        ELSE probe.read.value = None

\* a written name is read back, the second payload after an overwrite
C8_Witness ==
    /\ probe.read.done
    /\ probe.read.name \in probe.has_written
    /\ probe.read.name \in DOMAIN (CHOOSE c \in InitialCaches : c.exists).files
    /\ Truthy(probe.read.value)

(* _handle_multi_values *)

InitMulti ==
    LET MultiHandles == Range(MULTI_VALUE_ATTRIBUTE_HANDLING) \cup {"xyz"}
        MultiKeys == {"material", "Has fusion character"}
        MultiValues ==
            { JList(<<JStr("bone"), JStr("shell")>>), JList(<<JStr("bone")>>),
              JList(<<JFloat(3), JFloat(4), JFloat(3)>>), JList(<<JStr("a"), JInt(1), JBool(TRUE)>>),
              JList(<<JStr("x \"y\""), JStr("")>>) }
        MultiRecords == {EmptyDict, JDict(<<"uri", "material">>, <<JStr("r1"), JStr("old")>>)}
    IN
    /\ IdleObject
    /\ cache_file_prefix = TodayPrefix
    /\ dir_exists = FALSE
    /\ files = <<>>
    /\ \E h \in MultiHandles, k \in MultiKeys, v \in MultiValues, r \in MultiRecords :
          probe = [fn |-> "_handle_multi_values", phase |-> "input", handle |-> h,
                   key |-> k, values |-> v, record |-> r,
                   out |-> [exc |-> NoException, record |-> r]]

HandleMultiValues ==
    /\ probe.phase = "input"
    /\ probe' = [probe EXCEPT !.phase = "done",
                              !.out = _handle_multi_values(probe.handle, probe.key,
                                                           probe.values, probe.record)]
    /\ UNCHANGED <<cache_file_prefix, max_result_context_depth, dir_exists, files, op,
                   stack, gcu, result, hist, ncalls>>

SpecMulti == InitMulti /\ [][HandleMultiValues]_vars

\* C9: the multi-value policy table: first, last, json, concat and column_val
\* set the record as the table says, and an unknown policy fails with an
\* error that names the policy and leaves the record as it was.
C9_PolicyTable ==
    probe.phase = "done" =>
        LET h == probe.handle
            K == probe.key
            V == probe.values.items
            rec == probe.out.record
            strs == [i \in 1..Len(V) |-> PyStr(V[i])]
            added == {K \o " :: " \o strs[i] : i \in 1..Len(V)}
            keys(d) == {d.keys[i] : i \in 1..Len(d.keys)}
        IN
        CASE h = "first" -> probe.out.exc = NoException /\ DictGet(rec, K, None) = V[1]
          [] h = "last" -> probe.out.exc = NoException /\ DictGet(rec, K, None) = V[Len(V)]
          [] h = "json" ->
                /\ probe.out.exc = NoException
                /\ DictGet(rec, K, None).t = "str"
                /\ json_loads(DictGet(rec, K, None).s).v = probe.values
          [] h = "concat" ->
                /\ probe.out.exc = NoException
                /\ DictGet(rec, K, None) = JStr(Join(strs, multi_value_delim))
          [] h = "column_val" ->
                /\ probe.out.exc = NoException
                /\ keys(rec) = keys(probe.record) \cup added
                /\ \A c \in added : DictGet(rec, c, None) = JBool(TRUE)
                /\ DictGet(rec, K, None) = DictGet(probe.record, K, None)
          [] OTHER ->
                /\ probe.out.exc # NoException
                /\ Contains(probe.out.exc.msg, h)
                /\ rec = probe.record

\* the table for the five policies the class knows
C9_KnownPolicies ==
    IndexOf(MULTI_VALUE_ATTRIBUTE_HANDLING, probe.handle) # 0 => C9_PolicyTable

----------------------------------------------------------------------------
(* Properties of the public calls, under Spec *)

WalkNames == {"get_paged_json_records", "url_to_dataframe"}
AttributeNames == {"get_standard_attributes", "get_common_attributes"}

\* the call is over and result is how it ended
Ended(names) == op.name = "idle" /\ result.call.name \in names

\* what the service serves for a URL, and the chain of pages `next` links
ServedPage(url) == json_loads(BodyOf(url)).v

RECURSIVE ChainFrom(_)
ChainFrom(url) ==
    IF HasKey(ServedPage(url), "next")
    THEN <<url>> \o ChainFrom(DictGet(ServedPage(url), "next", None).s)
    ELSE <<url>>

RawRecordsOf(url) == DictGet(ServedPage(url), "oc-api:has-results", JList(<<>>)).items

\* the normalized records of one page
RecordsOf(url) ==
    [i \in 1..Len(RawRecordsOf(url)) |->
        _process_record_attributes(RawRecordsOf(url)[i], 0).record]

RECURSIVE Concatenated(_)
Concatenated(urls) ==
    IF urls = <<>> THEN <<>> ELSE RecordsOf(Head(urls)) \o Concatenated(Tail(urls))

Visited == [i \in 1..Len(hist.calls) |-> hist.calls[i].url]
SomeCallRaised == \E i \in 1..Len(hist.calls) : hist.calls[i].outcome = "raised"

\* C2: a walk that returns with do_paging true returns the records of the
\* pages of the chain, page after page, and has asked for exactly these pages
\* in this order; with do_paging false it returns the first page's records
\* and has asked for that page only.  A page is asked for only when every
\* page before it has been obtained.
C2_PaginationConcatenation ==
    /\ (Ended(WalkNames) /\ result.kind = "return") =>
          LET pages == IF result.call.flag THEN ChainFrom(result.call.url)
                       ELSE <<result.call.url>>
          IN
          /\ Visited = pages
          /\ result.value =
                IF result.call.name = "url_to_dataframe"
                THEN records_to_dataframe(JList(Concatenated(pages)),
                                          max_result_context_depth).df
                ELSE JList(Concatenated(pages))
    /\ op.name \in WalkNames =>
          \A i \in 1..(Len(hist.calls) - 1) : hist.calls[i].outcome \in {"hit", "fetched"}

\* the walk from the first page returned the five records of the three pages
C2_Witness ==
    /\ Ended({"get_paged_json_records"})
    /\ result.kind = "return"
    /\ result.call.flag
    /\ Len(Visited) = Len(PageUrls)
    /\ Len(result.value.items) = 5
    /\ result.value.items[1] = result.value.items[5]

\* C3: when a live request fails, get_cache_url fails with an error that
\* carries the requested URL, and it never returns an empty object.
C3_FetchFailureCarriesUrl ==
    \A i \in 1..Len(hist.calls) :
        LET c == hist.calls[i] IN
        /\ c.outcome = "raised" => Contains(c.exc.msg, c.url)
        /\ c.outcome \in {"hit", "fetched"} => Truthy(c.ret)

\* C4: get_standard_attributes and get_common_attributes return None when
\* the fetch of the query URL fails.
C4_NoneOnFetchFailure ==
    (Ended(AttributeNames) /\ SomeCallRaised) =>
        result.kind = "return" /\ result.value = None

\* C5: a walk in which the fetch of some page failed ends with the exception
\* and hands no records to its caller.
C5_NoPartialResults ==
    /\ (Ended(WalkNames) /\ SomeCallRaised) => result.kind = "raise" /\ result.value = None
    /\ op.name \in WalkNames => result = NoResult

\* the third page's fetch failed after two pages were obtained
C5_Witness ==
    /\ Ended({"url_to_dataframe"})
    /\ result.kind = "raise"
    /\ Len(hist.calls) = 3
    /\ hist.calls[1].outcome = "fetched"
    /\ hist.calls[3].outcome = "raised"

\* whether fs holds a readable entry under name
ReadableEntry(fs, name) ==
    /\ name \in DOMAIN fs
    /\ fs[name].kind = "file"
    /\ fs[name].utf8
    /\ json_loads(fs[name].text).ok

\* C6: in every call of get_cache_url each request is immediately preceded
\* by one sleep, and a call that finds a readable entry under its key makes
\* no sleep, no request and no write and returns the entry's payload.
C6_PacingAndCacheHits ==
    \A i \in 1..Len(hist.calls) :
        LET c == hist.calls[i]
            name == _make_url_cache_file_name(cache_file_prefix, c.url, c.params)
        IN
        /\ \A j \in 1..Len(c.events) :
              c.events[j] = "GET" =>
                 /\ j > 1 /\ c.events[j - 1] = "sleep"
                 /\ j > 2 => c.events[j - 2] # "sleep"
        /\ \A j \in 1..Len(c.events) :
              c.events[j] = "sleep" => (j = Len(c.events) \/ c.events[j + 1] = "GET")
        /\ ReadableEntry(c.before, name) =>
              /\ c.events = <<>>
              /\ c.outcome \in {"pending", "hit"}
              /\ c.outcome = "hit" => c.ret = json_loads(c.before[name].text).v
              /\ (i = Len(hist.calls) /\ op.name # "idle") => files = c.before

\* one walk had a cache hit for its first page and a paced request for its
\* second
C6_Witness ==
    /\ Len(hist.calls) >= 2
    /\ hist.calls[1].outcome = "hit"
    /\ hist.calls[2].events = <<"sleep", "GET", "write">>

\* a step that is a call of clear_api_cache(k)
IsClear(k) ==
    /\ op.name = "idle"
    /\ ncalls' = ncalls + 1
    /\ result'.call.name = "clear_api_cache"
    /\ result'.call.flag = k

FileNames(fs) == {f \in DOMAIN fs : fs[f].kind = "file"}

\* C7 as claimed: keep_prefix true removes the files whose name does not
\* start with the prefix, keep_prefix false those whose name does, and
\* nothing else changes.
C7_ClearViceVersa ==
    [][\A k \in BOOLEAN :
          IsClear(k) =>
             /\ dir_exists' = dir_exists
             /\ DOMAIN files' = (DOMAIN files) \
                   {f \in FileNames(files) : k = ~StartsWith(f, cache_file_prefix)}
             /\ \A f \in DOMAIN files' : files'[f] = files[f]]_vars

\* C7 as the code has it: keep_prefix true removes the files whose name does
\* not start with the prefix, keep_prefix false removes every file; entries
\* that are not files stay, the kept entries are unchanged and the directory
\* stays.
C7_ClearKeepsPrefixOrNothing ==
    [][\A k \in BOOLEAN :
          IsClear(k) =>
             /\ dir_exists' = dir_exists
             /\ DOMAIN files' = (DOMAIN files) \
                   {f \in FileNames(files) : ~k \/ ~StartsWith(f, cache_file_prefix)}
             /\ \A f \in DOMAIN files' : files'[f] = files[f]]_vars

\* clear_api_cache(False) has left nothing but the sub-directory
C7_Witness ==
    /\ Ended({"clear_api_cache"})
    /\ ~result.call.flag
    /\ dir_exists
    /\ DOMAIN files = {"notes"}

\* the context columns of a normalized record, in the record's order
ContextKeys(record) ==
    SelectSeq(record.keys, LAMBDA k : StartsWith(k, "Context ("))

\* a normalized record has the columns Context (1) .. Context (n), in order,
\* holding the n segments of the raw record's context path, and none if the
\* raw record has no context
ContextSplit(raw, record) ==
    LET cols == ContextKeys(record)
        segs == [i \in 1..Len(cols) |-> DictGet(record, cols[i], None).s]
    IN
    /\ \A i \in 1..Len(cols) : cols[i] = "Context (" \o ToString(i) \o ")"
    /\ \A i \in 1..Len(cols) : ~Contains(segs[i], "/")
    /\ IF HasKey(raw, "context label")
       THEN Len(cols) >= 1 /\ Join(segs, "/") = DictGet(raw, "context label", None).s
       ELSE cols = <<>>

Max(S) == CHOOSE x \in S : \A y \in S : y <= x

\* the number of segments of a context path
SegmentCount(path) == Cardinality({i \in 1..Len(path) : Ch(path, i) = "/"}) + 1

\* the largest number of context segments among the raw records of the pages
DepthOf(urls) ==
    Max({0} \cup UNION {{SegmentCount(DictGet(RawRecordsOf(urls[u])[i],
                                              "context label", None).s) :
                            i \in {j \in 1..Len(RawRecordsOf(urls[u])) :
                                      HasKey(RawRecordsOf(urls[u])[j], "context label")}} :
                        u \in 1..Len(urls)})

\* C10: the records an activation of the walker made of its page have the
\* context columns of their raw records; the tracked depth never decreases
\* while a call runs; and after url_to_dataframe returned it is the largest
\* number of context segments among the records of that query.
C10_ContextDepth ==
    /\ [](\A f \in 1..Len(stack) :
             (stack[f].pc = "recurse" \/ (stack[f].pc = "return" /\ stack[f].ret # None)) =>
                /\ Len(stack[f].records) = Len(RawRecordsOf(stack[f].url))
                /\ \A i \in 1..Len(stack[f].records) :
                      ContextSplit(RawRecordsOf(stack[f].url)[i], stack[f].records[i]))
    /\ []((Ended({"url_to_dataframe"}) /\ result.kind = "return") =>
             max_result_context_depth = DepthOf(ChainFrom(result.call.url)))
    /\ [][op.name # "idle" => max_result_context_depth' >= max_result_context_depth]_vars

\* url_to_dataframe of the last page returned as the second call, with the
\* depth of that page's records
C10_Witness ==
    /\ Ended({"url_to_dataframe"})
    /\ result.kind = "return"
    /\ result.call.url = PageUrls[3]
    /\ ncalls = 2
    /\ max_result_context_depth = 2

----------------------------------------------------------------------------
(* get_standard_attributes and get_common_attributes on the json_data of   *)
(* a query: what either does once get_cache_url returned.  The query has   *)
(* up to MaxFacets facets of FacetPool.                                    *)

MaxFacets == 2
PredicateNs == "http://opencontext.org/predicates/"
ZooarchNs == "http://opencontext.org/vocabularies/open-context-zooarch/"

InitFacet ==
    LET FacetPool ==
            LET
            POpts ==
                "[{\"slug\": \"p-1\", \"label\": \"P1\", \"rdfs:isDefinedBy\": \"http://opencontext.org/predicates/p1\", \"count\": 20}, "
                \o "{\"slug\": \"p-2\", \"label\": \"P2\", \"rdfs:isDefinedBy\": \"http://opencontext.org/predicates/p2\", \"count\": 19}]"
            ZOpts ==
                "[{\"slug\": \"z-1\", \"label\": \"Z1\", \"count\": 1}, {\"slug\": \"gbif-1\", \"label\": \"G1\"}, "
                \o "{\"slug\": \"z-1\", \"label\": \"Z1\"}, {\"slug\": \"z-3\"}, {\"slug\": \"z-1\", \"label\": \"Z one\"}]"
            IN
            { json_loads("{\"rdfs:isDefinedBy\": \"http://opencontext.org/predicates/abc\", \"oc-api:has-id-options\": " \o POpts \o "}").v,
              json_loads("{\"rdfs:isDefinedBy\": \"oc-api:facet-prop-var\", \"oc-api:has-numeric-options\": " \o POpts \o "}").v,
              json_loads("{\"rdfs:isDefinedBy\": \"http://opencontext.org/vocabularies/open-context-zooarch/x\", \"oc-api:has-id-options\": " \o ZOpts \o "}").v,
              json_loads("{\"rdfs:isDefinedBy\": \"http://opencontext.org/vocabularies/open-context-zooarch/y\", "
                         \o "\"oc-api:has-float-options\": [{\"slug\": \"z-2\", \"label\": \"Z2\"}], "
                         \o "\"oc-api:has-text-options\": [{\"slug\": \"eol-p-9\", \"label\": \"E9\"}, {\"slug\": \"z-1\", \"label\": \"Z1\"}], "
                         \o "\"other-options\": [{\"slug\": \"o-1\", \"label\": \"O1\"}]}").v,
              json_loads("{\"rdfs:isDefinedBy\": \"http://purl.org/dc/terms/subject\", \"oc-api:has-id-options\": "
                         \o "[{\"slug\": \"d-1\", \"label\": \"D1\"}, {\"slug\": \"z-2\", \"label\": \"Z2\"}]}").v,
              json_loads("{\"rdfs:isDefinedBy\": \"oc-api:facet-prop-ld\", \"oc-api:has-id-options\": "
                         \o "[{\"slug\": \"l-1\", \"label\": \"L1\"}]}").v,
              json_loads("{\"oc-api:has-id-options\": [{\"slug\": \"u-1\", \"label\": \"U1\"}]}").v,
              json_loads("{\"rdfs:isDefinedBy\": \"http://opencontext.org/vocabularies/open-context-zooarch/n\", "
                         \o "\"oc-api:has-numeric-options\": [{\"slug\": \"n-1\", \"label\": 5}, "
                         \o "{\"slug\": \"n-1\", \"label\": 5.0}, {\"slug\": \"n-1\", \"label\": 6}, "
                         \o "{\"slug\": \"\", \"label\": 7}]}").v,
              JInt(5) }
        FacetLists ==
            UNION {[1..n -> FacetPool] : n \in 0..MaxFacets}
        FacetQueries ==
            {JDict(<<"totalResults", "oc-api:has-facets">>, <<JInt(t), JList(fs)>>) :
                t \in {0, 100}, fs \in FacetLists}
            \cup {JDict(<<"totalResults", "oc-api:has-facets">>, <<t, JList(<<f>>)>>) :
                     t \in {Decimal(FALSE, "0", "5", 0), JStr("100")}, f \in FacetPool}
            \cup {JDict(<<"totalResults">>, <<JInt(100)>>),
                  JDict(<<"oc-api:has-facets">>, <<JList(<<>>)>>),
                  JList(<<JInt(1)>>), JList(<<>>)}
    IN
    /\ IdleObject
    /\ cache_file_prefix = TodayPrefix
    /\ dir_exists = FALSE
    /\ files = <<>>
    /\ \E q \in FacetQueries :
          probe = [fn |-> "", phase |-> "input", json_data |-> q,
                   out |-> [exc |-> NoException, value |-> None]]

StandardAttributes ==
    /\ probe.phase = "input"
    /\ probe' = [probe EXCEPT !.fn = "get_standard_attributes", !.phase = "done",
                              !.out = StandardAttributesOf(probe.json_data)]
    /\ UNCHANGED <<cache_file_prefix, max_result_context_depth, dir_exists, files, op,
                   stack, gcu, result, hist, ncalls>>

CommonAttributes ==
    /\ probe.phase = "input"
    /\ probe' = [probe EXCEPT !.fn = "get_common_attributes", !.phase = "done",
                              !.out = CommonAttributesOf(probe.json_data)]
    /\ UNCHANGED <<cache_file_prefix, max_result_context_depth, dir_exists, files, op,
                   stack, gcu, result, hist, ncalls>>

NextFacet == StandardAttributes \/ CommonAttributes

SpecFacet == InitFacet /\ [][NextFacet]_vars

\* a query as the service answers it: a count of results, facets that are
\* objects defined by a URI (or by none), their option groups lists of
\* objects whose slug is a text
WellFormedQuery(json_data) ==
    LET IsOption(f_opt) ==
            /\ f_opt.t = "dict"
            /\ DictGet(f_opt, "slug", JStr("")).t = "str"
            /\ DictGet(f_opt, "rdfs:isDefinedBy", JStr("")).t = "str"
            /\ DictGet(f_opt, "count", JInt(0)).t = "int"
        IsGroup(f_opts) ==
            f_opts.t = "list" /\ \A i \in 1..Len(f_opts.items) : IsOption(f_opts.items[i])
        IsFacet(facet) ==
            /\ facet.t = "dict"
            /\ DictGet(facet, "rdfs:isDefinedBy", JStr("")).t = "str"
            /\ \A k \in 1..Len(FACET_OPTIONS_KEYS) :
                  IsGroup(DictGet(facet, FACET_OPTIONS_KEYS[k], JList(<<>>)))
        IsFacets(facets) ==
            facets.t = "list" /\ \A f \in 1..Len(facets.items) : IsFacet(facets.items[f])
    IN
    /\ json_data.t = "dict"
    /\ DictGet(json_data, "totalResults", JInt(0)).t = "int"
    /\ IsFacets(DictGet(json_data, "oc-api:has-facets", JList(<<>>)))

\* the facets of a query and the URI that defines a facet ("" for none)
FacetsOf(json_data) == DictGet(json_data, "oc-api:has-facets", JList(<<>>)).items
DefinedBy(facet) ==
    IF HasKey(facet, "rdfs:isDefinedBy") THEN DictGet(facet, "rdfs:isDefinedBy", None).s
    ELSE ""

\* the options of a facet, option group after option group
OptionsOf(facet) ==
    Flatten([k \in 1..Len(FACET_OPTIONS_KEYS) |->
                IF HasKey(facet, FACET_OPTIONS_KEYS[k])
                THEN DictGet(facet, FACET_OPTIONS_KEYS[k], None).items
                ELSE <<>>])

\* the option has a slug and a label (neither empty)
HasSlugAndLabel(f_opt) ==
    Truthy(DictGet(f_opt, "slug", None)) /\ Truthy(DictGet(f_opt, "label", None))
SlugLabel(f_opt) == JList(<<DictGet(f_opt, "slug", None), DictGet(f_opt, "label", None)>>)

\* the (slug, label) pairs of the options of a facet that have both
PairsOf(facet) ==
    LET opts == SelectSeq(OptionsOf(facet), HasSlugAndLabel)
    IN [i \in 1..Len(opts) |-> SlugLabel(opts[i])]

\* ... of those whose slug is an attribute's (not a taxonomy's)
IsAttributePair(pair) ==
    \A p \in 1..Len(NON_ATTRIBUTE_SLUG_PREFIXES) :
        ~StartsWith(pair.items[1].s, NON_ATTRIBUTE_SLUG_PREFIXES[p])
AttributePairsOf(facet) == SelectSeq(PairsOf(facet), IsAttributePair)

\* the pairs of all facets of the query, in the order the query has them
AllPairs(json_data) ==
    Flatten([f \in 1..Len(FacetsOf(json_data)) |-> PairsOf(FacetsOf(json_data)[f])])

\* the pair is one of the sequence: pairs are the same when they are equal,
\* as ("n-1", 5) and ("n-1", 5.0) are
HasPair(pairs, pair) == \E i \in 1..Len(pairs) : ItemEq(pairs[i], pair)

\* the pairs of a sequence without those that an earlier one equals
FirstSeenPairs(pairs) ==
    LET first == {i \in 1..Len(pairs) : \A j \in 1..(i - 1) : ~ItemEq(pairs[j], pairs[i])}
        nth(k) == CHOOSE i \in first : Cardinality({j \in first : j < i}) = k - 1
    IN [k \in 1..Cardinality(first) |-> pairs[nth(k)]]

\* get_standard_attributes ended for a well-formed query with results
StandardDone ==
    /\ probe.phase = "done"
    /\ probe.fn = "get_standard_attributes"
    /\ WellFormedQuery(probe.json_data)
    /\ DictGet(probe.json_data, "totalResults", JInt(0)).n >= 1

\* the returned list has no pair twice and has its pairs in the order in
\* which the query first has them
NoRepeatFirstSeenOrder(list) ==
    /\ \A i, j \in 1..Len(list) : ItemEq(list[i], list[j]) => i = j
    /\ list = FirstSeenPairs(SelectSeq(AllPairs(probe.json_data),
                                       LAMBDA pair : HasPair(list, pair)))

\* C11 as stated: for a well-formed query with results, no option of a facet defined
\* under the predicate namespace is in the list get_standard_attributes
\* returns, every option of a facet defined under the zooarchaeology
\* vocabulary is, and the list has each (slug, label) pair once, in
\* first-seen order.
C11_ZooarchUnconditional ==
    StandardDone =>
        LET facets == FacetsOf(probe.json_data)
            list == probe.out.value.items
        IN
        /\ probe.out.exc = NoException
        /\ \A f \in 1..Len(facets) :
              StartsWith(DefinedBy(facets[f]), PredicateNs) =>
                 \A pair \in Range(PairsOf(facets[f])) : ~HasPair(list, pair)
        /\ \A f \in 1..Len(facets) :
              StartsWith(DefinedBy(facets[f]), ZooarchNs) =>
                 \A pair \in Range(PairsOf(facets[f])) : HasPair(list, pair)
        /\ NoRepeatFirstSeenOrder(list)

\* C11 with the condition the code has: of a facet defined under the
\* zooarchaeology vocabulary the list has every option whose slug does not
\* start with a non-attribute prefix (gbif-, eol-p-), and no pair of the list
\* has such a slug; the rest as stated.
C11_FacetClassification ==
    StandardDone =>
        LET facets == FacetsOf(probe.json_data)
            list == probe.out.value.items
        IN
        /\ probe.out.exc = NoException
        /\ \A f \in 1..Len(facets) :
              StartsWith(DefinedBy(facets[f]), PredicateNs) =>
                 \A pair \in Range(PairsOf(facets[f])) : ~HasPair(list, pair)
        /\ \A f \in 1..Len(facets) :
              StartsWith(DefinedBy(facets[f]), ZooarchNs) =>
                 \A pair \in Range(AttributePairsOf(facets[f])) : HasPair(list, pair)
        /\ \A pair \in Range(list) :
              /\ IsAttributePair(pair)
              /\ \E f \in 1..Len(facets) :
                    /\ ~StartsWith(DefinedBy(facets[f]), PredicateNs)
                    /\ HasPair(PairsOf(facets[f]), pair)
        /\ NoRepeatFirstSeenOrder(list)

\* a query with a predicate facet and a zooarchaeology facet with a gbif-
\* option and a repeated option: the list is that of the second facet
C11_Witness ==
    /\ StandardDone
    /\ Len(FacetsOf(probe.json_data)) = 2
    /\ StartsWith(DefinedBy(FacetsOf(probe.json_data)[1]), PredicateNs)
    /\ StartsWith(DefinedBy(FacetsOf(probe.json_data)[2]), ZooarchNs)
    /\ PairsOf(FacetsOf(probe.json_data)[2]) # AttributePairsOf(FacetsOf(probe.json_data)[2])
    /\ probe.out.value.items = <<JList(<<JStr("z-1"), JStr("Z1")>>),
                                 JList(<<JStr("z-1"), JStr("Z one")>>)>>

\* get_common_attributes ended for a well-formed query with results
CommonDone ==
    /\ probe.phase = "done"
    /\ probe.fn = "get_common_attributes"
    /\ WellFormedQuery(probe.json_data)
    /\ DictGet(probe.json_data, "totalResults", JInt(0)).n >= 1

\* a facet whose options get_common_attributes is to look at
CommonFacet(facet) ==
    DefinedBy(facet) = "oc-api:facet-prop-var" \/ StartsWith(DefinedBy(facet), PredicateNs)

\* the options of the eligible facets that have slug and label and are
\* defined under the predicate namespace
PredicateOptions(json_data) ==
    LET facets == SelectSeq(FacetsOf(json_data), CommonFacet)
        opts == Flatten([f \in 1..Len(facets) |-> OptionsOf(facets[f])])
    IN SelectSeq(opts, LAMBDA o : /\ HasSlugAndLabel(o)
                                  /\ StartsWith(DefinedBy(o), PredicateNs))

\* count >= totalResults * 0.2, in whole numbers
MeetsThreshold(f_opt, total_found) ==
    5 * DictGet(f_opt, "count", JInt(0)).n >= total_found

\* C12: get_common_attributes returns a list that has the (slug, label) pair
\* of a predicate option of an eligible facet exactly when the option's
\* count is at least totalResults * 0.2 (of 100 results: 20 is in, 19 out).
C12_ThresholdBoundary ==
    CommonDone =>
        LET total_found == DictGet(probe.json_data, "totalResults", JInt(0)).n
            opts == PredicateOptions(probe.json_data)
            common == SelectSeq(opts, LAMBDA o : MeetsThreshold(o, total_found))
        IN
        /\ probe.out.exc = NoException
        /\ probe.out.value.t = "list"
        /\ Range(probe.out.value.items) = {SlugLabel(common[i]) : i \in 1..Len(common)}

\* the same for the queries that have no facet: the list is empty
C12_NoFacets ==
    (CommonDone /\ FacetsOf(probe.json_data) = <<>>) => C12_ThresholdBoundary

----------------------------------------------------------------------------
(* _reorder_dataframe_columns on its own *)

MaxColumns == 3
MaxDepth == 2

\* the tables are of up to MaxColumns columns: identifiers, context levels,
\* text attributes (two with as many distinct values), flags and numbers
InitReorder ==
    LET ReorderTables ==
            LET Column(name, dtype, nunique) ==
                    [name |-> name, dtype |-> dtype, nunique |-> nunique]
                pool == { Column("uri", "object", 3), Column("label", "object", 3),
                          Column("Context (1)", "object", 1), Column("Context (2)", "object", 2),
                          Column("Material", "object", 2), Column("Age", "object", 2),
                          Column("Has fusion character :: x", "bool", 2),
                          Column("Burnt", "bool", 1),
                          Column("count", "int64", 3), Column("Length", "float64", 3) }
            IN {df \in UNION {[1..n -> pool] : n \in 0..MaxColumns} :
                   \A i, j \in 1..Len(df) : df[i] = df[j] => i = j}
    IN
    /\ IdleObject
    /\ cache_file_prefix = TodayPrefix
    /\ dir_exists = FALSE
    /\ files = <<>>
    /\ \E df \in ReorderTables, depth \in 0..MaxDepth :
          probe = [fn |-> "_reorder_dataframe_columns", times |-> 0, table |-> df,
                   df |-> df, depth |-> depth, out |-> df]

\* df = self._reorder_dataframe_columns(df), on the table or on the table
\* the function returned
ReorderDataframeColumns ==
    /\ probe.times < 2
    /\ probe' = [probe EXCEPT !.times = @ + 1,
                              !.df = probe.out,
                              !.out = _reorder_dataframe_columns(probe.out, probe.depth)]
    /\ UNCHANGED <<cache_file_prefix, max_result_context_depth, dir_exists, files, op,
                   stack, gcu, result, hist, ncalls>>

SpecReorder == InitReorder /\ [][ReorderDataframeColumns]_vars

\* C13: the table the function returns has the columns of the table it got,
\* each once; and of a table the function returned it returns the same order.
C13_ReorderIdempotent ==
    /\ probe.times >= 1 =>
          /\ Len(probe.out) = Len(probe.df)
          /\ Range(probe.out) = Range(probe.df)
    /\ probe.times = 2 => probe.out = probe.df

\* the function was applied twice to a table that began with a number
\* column, before two object columns with as many distinct values: it moved
\* the number column behind them and kept the two in the table's order
C13_Witness ==
    /\ probe.times = 2
    /\ probe.table # probe.out
    /\ Len(probe.table) = 3
    /\ probe.table[1].dtype \in {"int64", "float64"}
    /\ probe.out[1].name = "Material"
    /\ probe.out[2].name = "Age"
    /\ probe.out[3] = probe.table[1]

----------------------------------------------------------------------------
(* Progress.  The class runs in one thread and nothing in it waits for     *)
(* another party but requests.get: a call that began takes its next step,  *)
(* and a request comes back (with a response or an exception).  When the   *)
(* caller makes the next public call is up to the caller.                  *)

Continue ==
    \/ GcuLookup
    \/ GcuSleep
    \/ GcuRequest
    \/ GcuCheck
    \/ GetCacheUrlReturn
    \/ PropagateException
    \/ AttributesReturn
    \/ PagedCall
    \/ PagedProcess
    \/ PagedReturn
    \/ UrlToDataframeReturn

\* ENABLED <<Continue>>_vars, by the guards of the steps: each step, once its
\* guard holds, assigns every variable and changes one
CanContinue ==
    \/ gcu.pc \in {"lookup", "sleep", "request", "check"}
    \/ gcu.pc = "returned" /\ op.name \in {"get_cache_url", "get_standard_attributes",
                                           "get_common_attributes"}
    \/ op.pc = "raising"
    \/ stack # <<>> /\ op.pc = "running" /\ Top.pc \in {"call", "return"}
    \/ stack # <<>> /\ Top.pc = "wait" /\ gcu.pc = "returned"
    \/ op.name = "url_to_dataframe" /\ op.pc = "frame"

\* weak fairness of Continue, WF_vars(Continue), written out with CanContinue
\* for ENABLED <<Continue>>_vars
SpecLive ==
    Init /\ [][Next]_vars /\ ([]<>(~CanContinue) \/ []<><<Continue>>_vars)

\* a step in which get_cache_url is entered for url
Fetches(url) ==
    /\ Len(hist'.calls) = Len(hist.calls) + 1
    /\ hist'.calls[Len(hist'.calls)].url = url

\* C14: a walk with do_paging true over the chain of pages the service has
\* ends; it asks for no page twice; and when it returns, it has asked for
\* every page of the chain and the last one it asked for has no `next`.
C14_WalkerTerminates ==
    /\ (op.name \in WalkNames /\ op.flag) ~> (op.name = "idle")
    /\ [][\A url \in WalkUrls :
             (op.name \in WalkNames /\ Fetches(url)) => url \notin Range(Visited)]_vars
    /\ []((Ended(WalkNames) /\ result.call.flag /\ result.kind = "return") =>
             /\ Range(Visited) = Range(ChainFrom(result.call.url))
             /\ Len(Visited) = Len(ChainFrom(result.call.url))
             /\ ~HasKey(hist.calls[Len(hist.calls)].ret, "next"))

\* url_to_dataframe of the first page ended after the three pages, the last
\* of them from the service
C14_Witness ==
    /\ Ended({"url_to_dataframe"})
    /\ result.kind = "return"
    /\ result.call.url = PageUrls[1]
    /\ Len(hist.calls) = Len(PageUrls)
    /\ hist.calls[Len(PageUrls)].events = <<"sleep", "GET", "write">>
    /\ result.value.index = 5

----------------------------------------------------------------------------
(* The cache directory over the calls of get_cache_url, under Spec *)

\* the key of a logged call of get_cache_url
KeyOf(c) == _make_url_cache_file_name(cache_file_prefix, c.url, c.params)

\* C15: a call of get_cache_url that failed has written nothing and has left
\* the cache directory as it found it; a call that has not written has not
\* changed the directory; a call writes only after a response that parsed to
\* a non-empty object, and then it writes that object, which it returns,
\* under the request's key and leaves the other entries as they are.
C15_FailedFetchLeavesCache ==
    \A i \in 1..Len(hist.calls) :
        LET c == hist.calls[i]
            last == i = Len(hist.calls)
        IN
        /\ c.outcome = "raised" => "write" \notin Range(c.events) /\ last
        /\ ("write" \notin Range(c.events) /\ last) => files = c.before
        /\ "write" \in Range(c.events) =>
              /\ c.events = <<"sleep", "GET", "write">>
              /\ c.outcome = "fetched"
              /\ Truthy(c.ret)
              /\ dir_exists
              /\ ReadableEntry(files, KeyOf(c))
              /\ json_loads(files[KeyOf(c)].text).v = c.ret
              /\ last =>
                    /\ DOMAIN files = DOMAIN c.before \cup {KeyOf(c)}
                    /\ \A f \in DOMAIN c.before : f # KeyOf(c) => files[f] = c.before[f]

\* a walk whose first page was fetched and cached and whose second page
\* failed: the directory is as the second call found it, with the first
\* page's entry
C15_Witness ==
    /\ Len(hist.calls) = 2
    /\ hist.calls[1].outcome = "fetched"
    /\ hist.calls[2].outcome = "raised"
    /\ hist.calls[2].events = <<"sleep", "GET">>
    /\ files = hist.calls[2].before
    /\ KeyOf(hist.calls[1]) \in DOMAIN files
    /\ KeyOf(hist.calls[2]) \notin DOMAIN files

=============================================================================
